---- MODULE Spec2Model ----
(***************************************************************************)
(* The deliberation orchestrator of backend/council.py: one run of         *)
(* CouncilOrchestrator.run_full_council over the roster of                 *)
(* backend/config.py, with the completion gateway of backend/openrouter.py *)
(* as the environment that resolves each dispatched call.                  *)
(*                                                                         *)
(* Conventions.  A text is a sequence of tokens (strings); the tokens      *)
(* Fence, Newline and Blank are the three-backtick code fence, the line    *)
(* break and a blank; every other token is an indivisible piece of text    *)
(* that contains none of the three.  A confidence is an                    *)
(* integer number of hundredths (0.8 is 80).  Python positions are         *)
(* 0-based, positions of a TLA+ sequence 1-based: roster position p here   *)
(* is index p - 1 in the code.                                             *)
(***************************************************************************)
EXTENDS Integers, Sequences, FiniteSets, TLC

VARIABLES
    models,             \* config.COUNCIL_MODELS, the roster
    chairman,           \* config.CHAIRMAN_MODEL, <<m>> once resolved
    on_progress,        \* whether the caller passed a progress callback
    entry,              \* the method the caller invoked
    pc,                 \* position of the run
    round_num,          \* round_num of run_full_council / round_number
    requests,           \* the requests built by the stage in flight
    pending,            \* roster positions whose gateway call is in flight
    results,            \* per position, what its gateway call resolved to
    chair_pending,      \* the chairman's consensus call is in flight
    initial_responses,  \* list[ModelMessageResponse] of the initial stage
    discussion_rounds,  \* list[DiscussionRound] accumulated by the run
    consensus,          \* <<ConsensusResponse>> once created
    returned,           \* <<value>> handed to the caller on return
    raised,             \* the exception that left the run, or "none"
    events,             \* StageProgressEvents given to on_progress, in order
    calls,              \* requests of the run received by the gateway, in order
    abandoned,          \* the streaming caller of the run has gone away
    run,                \* which call of run_full_council the above belong to
    other,              \* <<locals>> of a second call in progress, or <<>>
    drained,            \* how many of events the caller took off progress_queue
    chat_history,       \* the chat_history argument, list[dict]
    max_chars,          \* the max_chars argument of _format_chat_history_toon
    gen,                \* position of event_generator of send_message_stream
    sent,               \* the events it has yielded to the client, in order
    saved               \* the messages committed to the chat, in order

vars == <<models, chairman, on_progress, entry, pc, round_num, requests,
          pending, results, chair_pending, initial_responses,
          discussion_rounds, consensus, returned, raised, events, calls,
          abandoned, run, other, drained, chat_history, max_chars,
          gen, sent, saved>>

----------------------------------------------------------------------------
(* Bounds of the model *)

\* the capacity of progress_queue when it is given one
MaxQueue == 1

MaxAgents == 3
MaxPrefix == 3
MaxSuffix == 2
\* the longest chat history
MaxHistory == 3

(* Program constants *)

MAX_DISCUSSION_ROUNDS == 3
DefaultConfidence == 80
HighConfidence == 95
\* _format_chat_history_toon: the default of max_chars, the length a
\* message is cut to, len("[U]") and len("[...]")
DefaultMaxChars == 3000
TruncateAt == 500
PrefixChars == 3
TruncationMarkerChars == 5

----------------------------------------------------------------------------
(* Generic helpers *)

RECURSIVE SumSeq(_)
SumSeq(s) == IF s = <<>> THEN 0 ELSE Head(s) + SumSeq(Tail(s))

Range(s) == { s[i] : i \in DOMAIN s }

RECURSIVE SeqsUpTo(_, _)
SeqsUpTo(S, n) ==
    IF n = 0 THEN { <<>> }
    ELSE LET shorter == SeqsUpTo(S, n - 1)
         IN  shorter \cup { Append(s, x) : s \in shorter, x \in S }

----------------------------------------------------------------------------
(* Texts and the string operations the code applies to them *)

Fence == "<fence>"
Newline == "\n"
Blank == " "

IsSpace(t) == t \in {Newline, Blank}

RECURSIVE LStrip(_)
LStrip(s) ==
    IF s = <<>> THEN s
    ELSE IF IsSpace(Head(s)) THEN LStrip(Tail(s)) ELSE s

RECURSIVE RStrip(_)
RStrip(s) ==
    IF s = <<>> THEN s
    ELSE IF IsSpace(s[Len(s)]) THEN RStrip(SubSeq(s, 1, Len(s) - 1)) ELSE s

\* str.strip()
Strip(s) == RStrip(LStrip(s))

\* str.startswith(fence) / str.endswith(fence)
StartsWithFence(s) == s # <<>> /\ Head(s) = Fence
EndsWithFence(s) == s # <<>> /\ s[Len(s)] = Fence

\* position of the first line break of s, 0 when it has none
FirstNewline(s) ==
    IF \E i \in DOMAIN s : s[i] = Newline
    THEN CHOOSE i \in DOMAIN s :
            /\ s[i] = Newline
            /\ \A j \in 1..(i - 1) : s[j] # Newline
    ELSE 0

\* position of the last line break of s, 0 when it has none
LastNewline(s) ==
    IF \E i \in DOMAIN s : s[i] = Newline
    THEN CHOOSE i \in DOMAIN s :
            /\ s[i] = Newline
            /\ \A j \in (i + 1)..Len(s) : s[j] # Newline
    ELSE 0

----------------------------------------------------------------------------
(* JSON documents.  A JSON document is one token; JsonDocs gives what      *)
(* json.loads decodes it to.  Each of the three keys the code reads is     *)
(* described by its JSON type (ty) and, when the type is the one           *)
(* ModelMessageResponse declares, its value.                               *)

Missing == [ty |-> "missing", str |-> <<>>, num |-> 0, list |-> <<>>]
Null == [ty |-> "null", str |-> <<>>, num |-> 0, list |-> <<>>]
Str(t) == [ty |-> "str", str |-> t, num |-> 0, list |-> <<>>]
Num(n) == [ty |-> "num", str |-> <<>>, num |-> n, list |-> <<>>]
List(l) == [ty |-> "list", str |-> <<>>, num |-> 0, list |-> l]

Object(c, f, k) ==
    [kind |-> "object", content |-> c, confidence |-> f, key_points |-> k]
NotObject ==
    [kind |-> "array", content |-> Missing, confidence |-> Missing,
     key_points |-> Missing]

JsonDocs ==
    "{content,1.0,[k]}"  :> Object(Str(<<"refined">>), Num(100), List(<<"k">>))
 @@ "{content,0.95,[k]}" :> Object(Str(<<"refined">>), Num(95), List(<<"k">>))
 @@ "{content,1.5,[k]}"  :> Object(Str(<<"refined">>), Num(150), List(<<"k">>))
 @@ "{}"                 :> Object(Missing, Missing, Missing)
 @@ "[1]"                :> NotObject
 @@ "{content:5}"        :> Object(Num(5), Num(90), List(<<>>))
 @@ "{confidence:high}"  :> Object(Str(<<"refined">>), Str(<<"high">>), List(<<>>))
 @@ "{key_points:null}"  :> Object(Str(<<"refined">>), Num(90), Null)

JsonTokens == DOMAIN JsonDocs

\* json.loads: blanks and line breaks around the document are skipped
JsonLoads(s) ==
    LET c == Strip(s)
    IN  IF Len(c) = 1 /\ c[1] \in JsonTokens
        THEN [ok |-> TRUE, doc |-> JsonDocs[c[1]]]
        ELSE [ok |-> FALSE, doc |-> NotObject]

----------------------------------------------------------------------------
(* The roster *)

Roles == {"chairman", "participant"}

Model(i, r) == [id |-> i, name |-> i, role |-> r]

Rosters ==
    UNION { { [i \in 1..n |-> Model(i, f[i])] : f \in [1..n -> Roles] }
            : n \in 0..MaxAgents }

\* config.COUNCIL_MODELS as configured
COUNCIL_MODELS == <<Model(1, "chairman"), Model(2, "participant")>>

\* the rosters a full run is explored with: those no longer than the
\* configured one
RunRosters == { ms \in Rosters : Len(ms) <= Len(COUNCIL_MODELS) }

HasChairman(ms) == \E i \in DOMAIN ms : ms[i].role = "chairman"

\* next(m for m in COUNCIL_MODELS if m["role"] == "chairman")
FirstChairman(ms) ==
    ms[CHOOSE i \in DOMAIN ms :
          /\ ms[i].role = "chairman"
          /\ \A j \in 1..(i - 1) : ms[j].role # "chairman"]

----------------------------------------------------------------------------
(* Anonymizer and prompt contexts *)

\* the code points of the word in front of the letter
ModelWord == <<1052, 1086, 1076, 1077, 1083, 1100>>

\* mutant: the letters start again after the second
_anonymize_model_name_Wrapping(index) ==
    [word |-> ModelWord, letter |-> 1040 + (index % 2)]

\* index is the 0-based position
_anonymize_model_name(index) == [word |-> ModelWord, letter |-> 1040 + index]

\* enumerate(self.models) ... if m["name"] == name: 0-based index of the first
IndexOfName(ms, name) ==
    (CHOOSE i \in DOMAIN ms :
          /\ ms[i].name = name
          /\ \A j \in 1..(i - 1) : ms[j].name # name) - 1

\* One labelled piece of a prompt.  src is the position, in the list it was
\* taken from, of the response the piece shows.
Piece(label, name, content, src) ==
    [label |-> label, name |-> name, content |-> content, src |-> src]

RECURSIVE FormatFrom(_, _, _)
FormatFrom(responses, exclude_index, i) ==
    IF i > Len(responses) THEN <<>>
    ELSE IF exclude_index # <<>> /\ i - 1 = exclude_index[1]
         THEN FormatFrom(responses, exclude_index, i + 1)
         ELSE <<Piece(<<_anonymize_model_name(i - 1)>>, <<>>, responses[i], i)>>
              \o FormatFrom(responses, exclude_index, i + 1)

\* mutant: the entries kept are labelled by their place in the output
_format_responses_for_discussion_Renumbered(responses, exclude_index) ==
    [n \in DOMAIN FormatFrom(responses, exclude_index, 1) |->
        [FormatFrom(responses, exclude_index, 1)[n]
            EXCEPT !.label = <<_anonymize_model_name(n - 1)>>]]

\* responses: the contents in list order; exclude_index: <<>> or <<index>>
_format_responses_for_discussion(responses, exclude_index) ==
    FormatFrom(responses, exclude_index, 1)

----------------------------------------------------------------------------
(* Chat history.  The content of a message is described by the number of   *)
(* blanks and line breaks around it and the number of characters of the    *)
(* rest; a line of the output by what it shows.                            *)

MessageRoles == {"user", "assistant"}

Message(role, blanks, chars) ==
    [role |-> role, content |-> [blanks |-> blanks, chars |-> chars]]

\* len(content.replace("\n", " ").strip()): the replacement keeps the
\* length, strip() removes the blanks around
CleanChars(content) == content.chars

\* the line of the message at position i: prefix, the characters of the
\* content that are shown, and whether "[...]" follows them
MessageLine(msg, i) ==
    [kind |-> "message", src |-> i,
     prefix |-> IF msg.role = "user" THEN "[U]" ELSE "[A]",
     chars |-> IF CleanChars(msg.content) > TruncateAt THEN TruncateAt
               ELSE CleanChars(msg.content),
     cut |-> CleanChars(msg.content) > TruncateAt]

\* len(line) for line = f"{prefix} {content}"
LineChars(line) ==
    PrefixChars + 1 + line.chars
        + (IF line.cut THEN TruncationMarkerChars ELSE 0)

HeaderLine == [kind |-> "header"]
OmissionLine == [kind |-> "omitted"]

\* the loop of the mutant: every line is compared with the budget alone
RECURSIVE HistoryLinesPerLine(_, _, _)
HistoryLinesPerLine(history, budget, i) ==
    IF i > Len(history) THEN <<>>
    ELSE IF LineChars(MessageLine(history[i], i)) > budget
         THEN <<OmissionLine>>
         ELSE <<MessageLine(history[i], i)>>
              \o HistoryLinesPerLine(history, budget, i + 1)

\* the loop over chat_history from position i on, total_chars so far
RECURSIVE HistoryLines(_, _, _, _)
HistoryLines(history, budget, i, total_chars) ==
    IF i > Len(history) THEN <<>>
    ELSE IF total_chars + LineChars(MessageLine(history[i], i)) > budget
         THEN <<OmissionLine>>
         ELSE <<MessageLine(history[i], i)>>
              \o HistoryLines(history, budget, i + 1,
                              total_chars + LineChars(MessageLine(history[i], i)))

\* mutant: total_chars is never added to
_format_chat_history_toon_PerLine(history, budget) ==
    IF history = <<>> THEN <<>>
    ELSE <<HeaderLine>> \o HistoryLinesPerLine(history, budget, 1)

\* the lines of the string returned; no line at all is the empty string
_format_chat_history_toon(history, budget) ==
    IF history = <<>> THEN <<>>
    ELSE <<HeaderLine>> \o HistoryLines(history, budget, 1, 0)

\* the histories and budgets the formatter is called with
MessageChars == {0, TruncateAt, TruncateAt + 1}

Messages ==
    { Message(r, b, n) : r \in MessageRoles, b \in {0, 1}, n \in MessageChars }

Histories == SeqsUpTo(Messages, MaxHistory)

LineLengths == { LineChars(MessageLine(m, 1)) : m \in Messages }

Budgets ==
    {0, DefaultMaxChars}
        \cup { a + b - d : a \in LineLengths, b \in {0} \cup LineLengths,
                           d \in {0, 1} }

----------------------------------------------------------------------------
(* Gateway results and turns *)

\* what a call of chat_completion resolves to: its text, or an exception
\* whose str() is the text
Ok(t) == [kind |-> "text", text |-> t]
Failed(msg) == [kind |-> "exception", text |-> msg]
Unresolved == [kind |-> "pending", text |-> <<>>]

IsException(result) == result.kind = "exception"

\* f"Oshibka: {str(result)}" (the source has the word in Cyrillic)
ErrorMarker(result) == <<"Oshibka: ">> \o result.text

\* schemas.ModelMessageResponse (model_color left out)
ModelMessageResponse(model, content, confidence, key_points, stage, round_number) ==
    [model_id |-> model.id, model_name |-> model.name, content |-> content,
     confidence |-> confidence, key_points |-> key_points, stage |-> stage,
     round_number |-> round_number]

\* schemas.StageProgressEvent; an Optional field is <<>> (None) or <<value>>
StageProgressEvent(stage, round_number, model_name, status) ==
    [stage |-> stage, round_number |-> round_number,
     model_name |-> model_name, status |-> status]

\* run_initial_stage, "Process results": the turn of one roster entry
InitialTurn(model, result) ==
    IF IsException(result)
    THEN ModelMessageResponse(model, ErrorMarker(result), 0, <<>>, "initial", 0)
    ELSE ModelMessageResponse(model, result.text, DefaultConfidence, <<>>,
                              "initial", 0)

\* mutant: the except branch gives the degraded values of a failed call
Fallback_Degraded(result) ==
    [exc |-> "none", content |-> Str(<<"Oshibka: ">> \o result),
     confidence |-> Num(0), key_points |-> List(<<>>)]

\* the except branch: content = result, confidence = 0.8, key_points = []
Fallback(result) ==
    [exc |-> "none", content |-> Str(result),
     confidence |-> Num(DefaultConfidence), key_points |-> List(<<>>)]

\* parsed.get("content", result), parsed.get("confidence", 0.8),
\* parsed.get("key_points", [])
FromObject(result, parsed) ==
    [exc |-> "none",
     content |-> IF parsed.content.ty = "missing"
                 THEN Str(result) ELSE parsed.content,
     confidence |-> IF parsed.confidence.ty = "missing"
                    THEN Num(DefaultConfidence) ELSE parsed.confidence,
     key_points |-> IF parsed.key_points.ty = "missing"
                    THEN List(<<>>) ELSE parsed.key_points]

\* json.loads(clean_result) and the three parsed.get: JSONDecodeError, and
\* the AttributeError of .get on a document that is no object, are caught
FromLoaded(result, loaded) ==
    IF ~loaded.ok THEN Fallback(result)
    ELSE IF loaded.doc.kind # "object" THEN Fallback(result)
    ELSE FromObject(result, loaded.doc)

\* if clean_result.endswith(fence): clean_result = clean_result[:-3]
DropClosingFence(rest) ==
    IF EndsWithFence(rest) THEN SubSeq(rest, 1, Len(rest) - 1) ELSE rest

\* the body of the try block, clean being result.strip()
FromClean(result, clean) ==
    IF StartsWithFence(clean)
    THEN IF FirstNewline(clean) = 0
         THEN \* clean_result.split("\n", 1)[1] has no element 1
              [exc |-> "IndexError", content |-> Missing,
               confidence |-> Missing, key_points |-> Missing]
         ELSE FromLoaded(result,
                  JsonLoads(DropClosingFence(
                      SubSeq(clean, FirstNewline(clean) + 1, Len(clean)))))
    ELSE FromLoaded(result, JsonLoads(clean))

\* run_discussion_round, the try block: the three values it leaves in
\* content, confidence and key_points, or the exception that leaves it
ParseStructured(result) == FromClean(result, Strip(result))

\* the field types ModelMessageResponse accepts for content, confidence and
\* key_points
Validates(fields) ==
    /\ fields.content.ty = "str"
    /\ fields.confidence.ty = "num"
    /\ fields.key_points.ty = "list"

\* ModelMessageResponse(...) of a discussion turn, from the parsed fields
TurnOfFields(model, fields, round_number) ==
    IF fields.exc # "none"
    THEN [exc |-> fields.exc, turn |-> <<>>]
    ELSE IF ~Validates(fields)
    THEN [exc |-> "ValidationError", turn |-> <<>>]
    ELSE [exc |-> "none",
          turn |-> <<ModelMessageResponse(
                       model, fields.content.str, fields.confidence.num,
                       fields.key_points.list, "discussion", round_number)>>]

\* run_discussion_round, "Process results": the outcome for one roster
\* entry, a turn or the exception that leaves the method
DiscussionTurn(model, result, round_number) ==
    IF IsException(result)
    THEN [exc |-> "none",
          turn |-> <<ModelMessageResponse(model, ErrorMarker(result), 0, <<>>,
                                          "discussion", round_number)>>]
    ELSE TurnOfFields(model, ParseStructured(result.text), round_number)

\* mutant: every round recorded as the first
DiscussionRound_Unnumbered(round_number, responses) ==
    [round_number |-> 1, responses |-> responses]

\* schemas.DiscussionRound
DiscussionRound(round_number, responses) ==
    [round_number |-> round_number, responses |-> responses]

Confidences(responses) ==
    [i \in DOMAIN responses |-> responses[i].confidence]

\* mutant: the threshold compared with >= instead of >
HighConfidenceReached_AtLeast(responses) ==
    SumSeq(Confidences(responses)) >= HighConfidence * Len(responses)

\* run_full_council: avg_confidence > 0.95, for a non-empty round
HighConfidenceReached(responses) ==
    SumSeq(Confidences(responses)) > HighConfidence * Len(responses)

----------------------------------------------------------------------------
(* Requests *)

\* one request handed to the gateway: the model id it is addressed to and
\* the labelled responses its messages show (initial: the initial answers,
\* rounds: per earlier round its number and its pieces)
Request(model_id, stage, round_number, initial, rounds) ==
    [model |-> model_id, stage |-> stage, round_number |-> round_number,
     initial |-> initial, rounds |-> rounds]

\* what the gateway records of a request
CallOf(req) ==
    [model |-> req.model, stage |-> req.stage, round_number |-> req.round_number]

Contents(responses) == [i \in DOMAIN responses |-> responses[i].content]

\* zip(self.models, initial_responses): as long as the shorter of the two
Zipped(ms, responses) ==
    SubSeq(responses, 1, IF Len(ms) < Len(responses) THEN Len(ms)
                         ELSE Len(responses))

\* mutant: only the round before is shown
DiscussionContext_LastOnly(ms, previous_rounds) ==
    [k \in 1..(IF previous_rounds = <<>> THEN 0 ELSE 1) |->
        [round_number |-> previous_rounds[Len(previous_rounds)].round_number,
         pieces |-> [p \in DOMAIN previous_rounds[Len(previous_rounds)].responses |->
            Piece(<<_anonymize_model_name(p - 1)>>, <<>>,
                  previous_rounds[Len(previous_rounds)].responses[p].content,
                  p)]]]

\* run_discussion_round: discussion_context, the same for every agent
DiscussionContext(ms, previous_rounds) ==
    [k \in DOMAIN previous_rounds |->
        [round_number |-> previous_rounds[k].round_number,
         pieces |-> [p \in DOMAIN previous_rounds[k].responses |->
            LET resp == previous_rounds[k].responses[p]
            IN  Piece(<<_anonymize_model_name(IndexOfName(ms, resp.model_name))>>,
                      <<>>, resp.content, p)]]]

\* run_initial_stage, "Prepare parallel requests"
InitialRequests(ms) ==
    [i \in DOMAIN ms |-> Request(ms[i].id, "initial", 0, <<>>, <<>>)]

\* run_discussion_round, "Prepare parallel requests"
DiscussionRequests(ms, initial, previous_rounds, round_number) ==
    LET all_responses == Contents(Zipped(ms, initial))
    IN  [i \in DOMAIN ms |->
            Request(ms[i].id, "discussion", round_number,
                    _format_responses_for_discussion(all_responses, <<i - 1>>),
                    DiscussionContext(ms, previous_rounds))]

\* mutant: the request addressed to the first roster entry
ConsensusRequest_ToFirstModel(chair, initial, rounds) ==
    Request(initial[1].model_id, "consensus", 0, <<>>, <<>>)

\* run_consensus_stage: the one request, with the true names
ConsensusRequest(chair, initial, rounds) ==
    Request(chair.id, "consensus", 0,
            [i \in DOMAIN initial |->
                Piece(<<_anonymize_model_name(i - 1)>>, <<initial[i].model_name>>,
                      initial[i].content, i)],
            [k \in DOMAIN rounds |->
                [round_number |-> rounds[k].round_number,
                 pieces |-> [p \in DOMAIN rounds[k].responses |->
                    Piece(<<>>, <<rounds[k].responses[p].model_name>>,
                          rounds[k].responses[p].content, p)]]])

\* run_consensus_stage: final_answer from the chairman's text
FinalAnswer(result) ==
    LET final_answer == Strip(result)
        first == FirstNewline(final_answer)
        last == LastNewline(final_answer)
    IN  IF StartsWithFence(final_answer) /\ EndsWithFence(final_answer)
        THEN \* "\n".join(lines[1:-1]).strip()
             IF first = last THEN <<>>
             ELSE Strip(SubSeq(final_answer, first + 1, last - 1))
        ELSE final_answer

\* schemas.ConsensusResponse as run_consensus_stage builds it
ConsensusResponse(final_answer) ==
    [final_answer |-> final_answer, consensus_reached |-> TRUE,
     summary |-> "Konsensus dostignut", key_agreements |-> <<>>,
     key_disagreements |-> <<>>]

----------------------------------------------------------------------------
(* What the gateway may answer *)

Timeout == Failed(<<"timeout">>)

\* texts answered in the initial stage (the stage does not look into them)
InitialTexts == { <<"answer">> }

\* texts answered in the discussion rounds of a full run
RunTexts ==
    { <<"plain">>,
      <<"{content,0.95,[k]}">>,
      <<Fence, "json", Newline, "{content,1.0,[k]}", Newline, Fence>>,
      <<Fence, "{content,1.0,[k]}", Fence>> }

\* texts answered by the chairman
ChairTexts ==
    { <<"final">>,
      <<Fence, "markdown", Newline, "final", Newline, Fence>> }

\* texts answered to a single round invoked on its own: every text made of
\* an opening part, at most one body token and a closing part
AllTexts ==
    { pre \o body \o suf :
        pre \in SeqsUpTo({Fence, Newline, Blank, "json"}, MaxPrefix),
        body \in { <<>> } \cup { <<t>> : t \in JsonTokens \cup {"plain"} },
        suf \in SeqsUpTo({Fence, Newline, Blank}, MaxSuffix) }

InitialResults == {Timeout} \cup { Ok(t) : t \in InitialTexts }
RoundResults == {Timeout} \cup { Ok(t) : t \in RunTexts }
ChairResults == {Timeout} \cup { Ok(t) : t \in ChairTexts }
AllResults == {Timeout} \cup { Ok(t) : t \in AllTexts }

----------------------------------------------------------------------------
(* Actions *)

\* mutant: the caller's sink puts the newest events first
Emit_Prepend(evs) == IF on_progress THEN evs \o events ELSE events

\* on_progress(event) for each event of evs, when a callback was passed
Emit(evs) == IF on_progress THEN events \o evs ELSE events

\* mutant: gather without return_exceptions, left by the first exception
Gathered_FirstException ==
    pending = {} \/ \E p \in DOMAIN results : IsException(results[p])

\* asyncio.gather(*tasks, return_exceptions=True) has its result
Gathered == pending = {}

\* mutant: the requests awaited one after the other, only the first in flight
Dispatch_OneAtATime(reqs) ==
    /\ requests' = reqs
    /\ pending' = DOMAIN reqs \cap {1}
    /\ results' = [i \in DOMAIN reqs |-> Unresolved]
    /\ calls' = calls \o [i \in DOMAIN reqs \cap {1} |-> CallOf(reqs[i])]

\* client.parallel_completions(requests): one task per request
Dispatch(reqs) ==
    /\ requests' = reqs
    /\ pending' = DOMAIN reqs
    /\ results' = [i \in DOMAIN reqs |-> Unresolved]
    /\ calls' = calls \o [i \in DOMAIN reqs |-> CallOf(reqs[i])]

\* import of backend.config and backend.council
\* mutant: the chairman looked for with a default, the import never fails
Startup_DefaultChairman ==
    /\ pc = "boot"
    /\ chairman' = IF HasChairman(models) THEN <<FirstChairman(models)>>
                   ELSE <<>>
    /\ pc' = "idle"
    /\ raised' = raised
    /\ UNCHANGED <<abandoned, run, other, drained, chat_history, max_chars>>
    /\ UNCHANGED <<gen, sent, saved>>
    /\ UNCHANGED <<models, on_progress, entry, round_num, requests, pending,
                   results, chair_pending, initial_responses,
                   discussion_rounds, consensus, returned, events, calls>>

Startup ==
    /\ pc = "boot"
    /\ IF HasChairman(models)
       THEN /\ chairman' = <<FirstChairman(models)>>
            /\ pc' = "idle"
            /\ raised' = raised
       ELSE /\ chairman' = chairman
            /\ pc' = "startup_failed"
            /\ raised' = "StopIteration"
    /\ UNCHANGED <<abandoned, run, other, drained, chat_history, max_chars>>
    /\ UNCHANGED <<gen, sent, saved>>
    /\ UNCHANGED <<models, on_progress, entry, round_num, requests, pending,
                   results, chair_pending, initial_responses,
                   discussion_rounds, consensus, returned, events, calls>>

\* mutant: run_initial_stage without its "started" event
StartInitialStage_Silent ==
    /\ pc = "idle"
    /\ entry \in {"run_full_council", "run_initial_stage"}
    /\ pc' = "initial_dispatch"
    /\ UNCHANGED <<abandoned, run, other, drained, chat_history, max_chars>>
    /\ UNCHANGED <<gen, sent, saved>>
    /\ UNCHANGED <<models, chairman, on_progress, entry, round_num, requests,
                   pending, results, chair_pending, initial_responses,
                   discussion_rounds, consensus, returned, raised, events,
                   calls>>

\* run_initial_stage: if on_progress: await on_progress("started")
StartInitialStage ==
    /\ pc = "idle"
    /\ entry \in {"run_full_council", "run_initial_stage"}
    /\ events' = Emit(<<StageProgressEvent("initial", <<>>, <<>>, "started")>>)
    /\ pc' = "initial_dispatch"
    /\ UNCHANGED <<abandoned, run, other, drained, chat_history, max_chars>>
    /\ UNCHANGED <<gen, sent, saved>>
    /\ UNCHANGED <<models, chairman, on_progress, entry, round_num, requests,
                   pending, results, chair_pending, initial_responses,
                   discussion_rounds, consensus, returned, raised, calls>>

\* run_initial_stage from there up to the await of parallel_completions
DispatchInitialStage ==
    /\ pc = "initial_dispatch"
    /\ Dispatch(InitialRequests(models))
    /\ pc' = "initial_wait"
    /\ UNCHANGED <<abandoned, run, other, drained, chat_history, max_chars>>
    /\ UNCHANGED <<gen, sent, saved>>
    /\ UNCHANGED <<models, chairman, on_progress, entry, round_num,
                   chair_pending, initial_responses, discussion_rounds,
                   consensus, returned, raised, events>>

\* mutant: a call that failed is issued once more
Resolve_Reissue(p, r) ==
    /\ pc \in {"initial_wait", "round_wait"}
    /\ p \in pending
    /\ IF IsException(r)
          /\ Cardinality({ j \in DOMAIN calls :
                             calls[j] = CallOf(requests[p]) }) = 1
       THEN /\ calls' = Append(calls, CallOf(requests[p]))
            /\ UNCHANGED <<pending, results>>
       ELSE /\ pending' = pending \ {p}
            /\ results' = [results EXCEPT ![p] = r]
            /\ calls' = calls
    /\ UNCHANGED <<abandoned, run, other, drained, chat_history, max_chars>>
    /\ UNCHANGED <<gen, sent, saved>>
    /\ UNCHANGED <<models, chairman, on_progress, entry, pc, round_num,
                   requests, chair_pending, initial_responses,
                   discussion_rounds, consensus, returned, raised, events>>

\* the gateway resolves the call of roster position p
Resolve(p, r) ==
    /\ pc \in {"initial_wait", "round_wait"}
    /\ p \in pending
    /\ pending' = pending \ {p}
    /\ results' = [results EXCEPT ![p] = r]
    /\ UNCHANGED <<abandoned, run, other, drained, chat_history, max_chars>>
    /\ UNCHANGED <<gen, sent, saved>>
    /\ UNCHANGED <<models, chairman, on_progress, entry, pc, round_num,
                   requests, chair_pending, initial_responses,
                   discussion_rounds, consensus, returned, raised, events,
                   calls>>

\* mutant: the results that are exceptions are skipped
InitialResponses_SkipFailed ==
    LET kept == SelectSeq([i \in DOMAIN models |-> i],
                          LAMBDA i : ~IsException(results[i]))
    IN  [j \in DOMAIN kept |-> InitialTurn(models[kept[j]], results[kept[j]])]

\* run_initial_stage, "Process results"
InitialResponses ==
    [i \in DOMAIN models |-> InitialTurn(models[i], results[i])]

InitialEvents ==
    [i \in DOMAIN models |->
        StageProgressEvent("initial", <<>>, <<models[i].name>>, "completed")]

\* run_initial_stage from the return of parallel_completions to its return,
\* and run_full_council up to the call of the first round
FinishInitialStage ==
    /\ pc = "initial_wait"
    /\ entry = "run_full_council"
    /\ Gathered
    /\ initial_responses' = InitialResponses
    /\ events' = Emit(InitialEvents)
    /\ requests' = <<>>
    /\ results' = <<>>
    /\ IF MAX_DISCUSSION_ROUNDS >= 1
       THEN pc' = "round_start" /\ round_num' = 1
       ELSE pc' = "consensus_start" /\ round_num' = round_num
    /\ UNCHANGED <<abandoned, run, other, drained, chat_history, max_chars>>
    /\ UNCHANGED <<gen, sent, saved>>
    /\ UNCHANGED <<models, chairman, on_progress, entry, pending,
                   chair_pending, discussion_rounds, consensus, returned,
                   raised, calls>>

\* run_initial_stage invoked on its own: from the return of
\* parallel_completions to its return
ReturnInitialStage ==
    /\ pc = "initial_wait"
    /\ entry = "run_initial_stage"
    /\ Gathered
    /\ returned' = <<InitialResponses>>
    /\ events' = Emit(InitialEvents)
    /\ requests' = <<>>
    /\ results' = <<>>
    /\ pc' = "done"
    /\ UNCHANGED <<abandoned, run, other, drained, chat_history, max_chars>>
    /\ UNCHANGED <<gen, sent, saved>>
    /\ UNCHANGED <<models, chairman, on_progress, entry, round_num, pending,
                   chair_pending, initial_responses, discussion_rounds,
                   consensus, raised, calls>>

\* run_discussion_round: if on_progress: await on_progress("started")
StartDiscussionRound ==
    /\ entry \in {"run_full_council", "run_discussion_round"}
    /\ pc = IF entry = "run_full_council" THEN "round_start" ELSE "idle"
    /\ events' = Emit(<<StageProgressEvent("discussion", <<round_num>>, <<>>,
                                           "started")>>)
    /\ pc' = "round_dispatch"
    /\ UNCHANGED <<abandoned, run, other, drained, chat_history, max_chars>>
    /\ UNCHANGED <<gen, sent, saved>>
    /\ UNCHANGED <<models, chairman, on_progress, entry, round_num, requests,
                   pending, results, chair_pending, initial_responses,
                   discussion_rounds, consensus, returned, raised, calls>>

\* run_discussion_round from there up to the await of parallel_completions
DispatchDiscussionRound ==
    /\ pc = "round_dispatch"
    /\ Dispatch(DiscussionRequests(models, initial_responses,
                                   discussion_rounds, round_num))
    /\ pc' = "round_wait"
    /\ UNCHANGED <<abandoned, run, other, drained, chat_history, max_chars>>
    /\ UNCHANGED <<gen, sent, saved>>
    /\ UNCHANGED <<models, chairman, on_progress, entry, round_num,
                   chair_pending, initial_responses, discussion_rounds,
                   consensus, returned, raised, events>>

\* the roster position at which "Process results" raises, Len + 1 if none
FirstRaising(outcomes) ==
    IF \A p \in DOMAIN outcomes : outcomes[p].exc = "none"
    THEN Len(outcomes) + 1
    ELSE CHOOSE p \in DOMAIN outcomes :
            /\ outcomes[p].exc # "none"
            /\ \A q \in 1..(p - 1) : outcomes[q].exc = "none"

\* the loop left at position stop: the per-agent event comes after the
\* parsing of a result and before the construction of its turn
LoopLeftAt(outcomes, stop) ==
    IF stop > Len(outcomes)
    THEN [exc |-> "none",
          responses |-> [p \in DOMAIN outcomes |-> outcomes[p].turn[1]],
          reported |-> Len(outcomes)]
    ELSE [exc |-> outcomes[stop].exc,
          responses |-> [p \in 1..(stop - 1) |-> outcomes[p].turn[1]],
          reported |-> IF outcomes[stop].exc = "ValidationError"
                       THEN stop ELSE stop - 1]

\* run_discussion_round, "Process results": the loop over the roster, left
\* by the first exception.  reported: how many per-agent events it emitted.
ProcessResults(outcomes) == LoopLeftAt(outcomes, FirstRaising(outcomes))

\* mutant: the results taken in the reverse of the roster order
ProcessRound_Reversed ==
    ProcessResults([p \in DOMAIN models |->
                       DiscussionTurn(models[p], results[Len(models) + 1 - p],
                                      round_num)])

ProcessRound ==
    ProcessResults([p \in DOMAIN models |->
                       DiscussionTurn(models[p], results[p], round_num)])

RoundEvents(reported) ==
    [p \in 1..reported |->
        StageProgressEvent("discussion", <<round_num>>, <<models[p].name>>,
                           "completed")]

\* mutant: range(1, MAX_DISCUSSION_ROUNDS + 2), one round more
LoopBody_OneRoundMore(done) ==
    IF done.exc # "none"
    THEN /\ pc' = "failed"
         /\ raised' = done.exc
         /\ UNCHANGED <<round_num, discussion_rounds>>
    ELSE /\ discussion_rounds' =
                Append(discussion_rounds,
                       DiscussionRound(round_num, done.responses))
         /\ IF Len(done.responses) = 0
            THEN /\ pc' = "failed"
                 /\ raised' = "ZeroDivisionError"
                 /\ round_num' = round_num
            ELSE IF HighConfidenceReached(done.responses)
                    \/ round_num = MAX_DISCUSSION_ROUNDS + 1
            THEN /\ pc' = "consensus_start"
                 /\ raised' = raised
                 /\ round_num' = round_num
            ELSE /\ pc' = "round_start"
                 /\ raised' = raised
                 /\ round_num' = round_num + 1

\* mutant: a round whose confidences sum to 0 ends the discussion
LoopBody_StopsAtZero(done) ==
    IF done.exc # "none"
    THEN /\ pc' = "failed"
         /\ raised' = done.exc
         /\ UNCHANGED <<round_num, discussion_rounds>>
    ELSE /\ discussion_rounds' =
                Append(discussion_rounds,
                       DiscussionRound(round_num, done.responses))
         /\ IF Len(done.responses) = 0
            THEN /\ pc' = "failed"
                 /\ raised' = "ZeroDivisionError"
                 /\ round_num' = round_num
            ELSE IF HighConfidenceReached(done.responses)
                    \/ SumSeq(Confidences(done.responses)) = 0
                    \/ round_num = MAX_DISCUSSION_ROUNDS
            THEN /\ pc' = "consensus_start"
                 /\ raised' = raised
                 /\ round_num' = round_num
            ELSE /\ pc' = "round_start"
                 /\ raised' = raised
                 /\ round_num' = round_num + 1

\* run_full_council, the loop body after the await of run_discussion_round
LoopBody(done) ==
    IF done.exc # "none"
    THEN /\ pc' = "failed"
         /\ raised' = done.exc
         /\ UNCHANGED <<round_num, discussion_rounds>>
    ELSE /\ discussion_rounds' =
                Append(discussion_rounds,
                       DiscussionRound(round_num, done.responses))
         /\ IF Len(done.responses) = 0
            THEN /\ pc' = "failed"
                 /\ raised' = "ZeroDivisionError"
                 /\ round_num' = round_num
            ELSE IF HighConfidenceReached(done.responses)
                    \/ round_num = MAX_DISCUSSION_ROUNDS
            THEN /\ pc' = "consensus_start"
                 /\ raised' = raised
                 /\ round_num' = round_num
            ELSE /\ pc' = "round_start"
                 /\ raised' = raised
                 /\ round_num' = round_num + 1

\* mutant: a processed round writes its contents over the initial turns
FinishRound_OverwritesInitial(done) ==
    /\ events' = Emit(RoundEvents(done.reported))
    /\ LoopBody(done)
    /\ requests' = <<>>
    /\ results' = <<>>
    /\ initial_responses' =
          IF done.exc # "none" THEN initial_responses
          ELSE [p \in DOMAIN initial_responses |->
                   [initial_responses[p]
                       EXCEPT !.content = done.responses[p].content]]
    /\ UNCHANGED <<abandoned, run, other, drained, chat_history, max_chars>>
    /\ UNCHANGED <<gen, sent, saved>>
    /\ UNCHANGED <<models, chairman, on_progress, entry, pending,
                   chair_pending, consensus, returned, calls>>

\* run_discussion_round from the return of parallel_completions to its
\* return, and the rest of the loop body of run_full_council
FinishRound(done) ==
    /\ events' = Emit(RoundEvents(done.reported))
    /\ LoopBody(done)
    /\ requests' = <<>>
    /\ results' = <<>>
    /\ UNCHANGED <<abandoned, run, other, drained, chat_history, max_chars>>
    /\ UNCHANGED <<gen, sent, saved>>
    /\ UNCHANGED <<models, chairman, on_progress, entry, pending,
                   chair_pending, initial_responses, consensus, returned,
                   calls>>

FinishDiscussionRound ==
    /\ pc = "round_wait"
    /\ entry = "run_full_council"
    /\ Gathered
    /\ FinishRound(ProcessRound)

\* run_discussion_round invoked on its own: from the return of
\* parallel_completions to its return or its exception
ReturnRound(done) ==
    /\ events' = Emit(RoundEvents(done.reported))
    /\ IF done.exc # "none"
       THEN /\ pc' = "failed"
            /\ raised' = done.exc
            /\ returned' = returned
       ELSE /\ pc' = "done"
            /\ raised' = raised
            /\ returned' = <<DiscussionRound(round_num, done.responses)>>
    /\ requests' = <<>>
    /\ results' = <<>>
    /\ UNCHANGED <<abandoned, run, other, drained, chat_history, max_chars>>
    /\ UNCHANGED <<gen, sent, saved>>
    /\ UNCHANGED <<models, chairman, on_progress, entry, round_num, pending,
                   chair_pending, initial_responses, discussion_rounds,
                   consensus, calls>>

ReturnDiscussionRound ==
    /\ pc = "round_wait"
    /\ entry = "run_discussion_round"
    /\ Gathered
    /\ ReturnRound(ProcessRound)

\* run_consensus_stage: if on_progress: await on_progress("started")
StartConsensusStage ==
    /\ pc = "consensus_start"
    /\ events' = Emit(<<StageProgressEvent("consensus", <<>>,
                                           <<chairman[1].name>>, "started")>>)
    /\ pc' = "consensus_dispatch"
    /\ UNCHANGED <<abandoned, run, other, drained, chat_history, max_chars>>
    /\ UNCHANGED <<gen, sent, saved>>
    /\ UNCHANGED <<models, chairman, on_progress, entry, round_num, requests,
                   pending, results, chair_pending, initial_responses,
                   discussion_rounds, consensus, returned, raised, calls>>

\* run_consensus_stage from there up to the await of chat_completion
DispatchConsensusStage ==
    /\ pc = "consensus_dispatch"
    /\ LET req == ConsensusRequest(chairman[1], initial_responses,
                                   discussion_rounds)
       IN  /\ requests' = <<req>>
           /\ calls' = Append(calls, CallOf(req))
    /\ chair_pending' = TRUE
    /\ pc' = "consensus_wait"
    /\ UNCHANGED <<abandoned, run, other, drained, chat_history, max_chars>>
    /\ UNCHANGED <<gen, sent, saved>>
    /\ UNCHANGED <<models, chairman, on_progress, entry, round_num, pending,
                   results, initial_responses, discussion_rounds, consensus,
                   returned, raised, events>>

\* mutant: a failed call of the chairman is reissued once
ResolveChair_Retry(r) ==
    /\ pc = "consensus_wait"
    /\ chair_pending
    /\ IF IsException(r) /\ Len(calls) > 0 /\ Len(requests) > 0
          /\ Cardinality({ j \in DOMAIN calls : calls[j].stage = "consensus" }) = 1
       THEN /\ calls' = Append(calls, CallOf(requests[1]))
            /\ UNCHANGED <<pc, chair_pending, requests, raised, consensus,
                           returned, events>>
       ELSE /\ chair_pending' = FALSE
            /\ requests' = <<>>
            /\ calls' = calls
            /\ IF IsException(r)
               THEN /\ pc' = "failed"
                    /\ raised' = "GatewayError"
                    /\ UNCHANGED <<consensus, returned, events>>
               ELSE /\ consensus' = <<ConsensusResponse(FinalAnswer(r.text))>>
                    /\ events' = events
                    /\ returned' = <<[initial_responses |-> initial_responses,
                                      discussion_rounds |-> discussion_rounds,
                                      consensus |-> consensus'[1]]>>
                    /\ pc' = "done"
                    /\ raised' = raised
    /\ UNCHANGED <<abandoned, run, other, drained, chat_history, max_chars>>
    /\ UNCHANGED <<gen, sent, saved>>
    /\ UNCHANGED <<models, chairman, on_progress, entry, round_num, pending,
                   results, initial_responses, discussion_rounds>>

\* mutant: a failed call of the chairman is reported by an error event
ResolveChair_ReportsError(r) ==
    /\ pc = "consensus_wait"
    /\ chair_pending
    /\ chair_pending' = FALSE
    /\ requests' = <<>>
    /\ IF IsException(r)
       THEN /\ pc' = "failed"
            /\ raised' = "GatewayError"
            /\ events' = Emit(<<StageProgressEvent("consensus", <<>>,
                                   <<chairman[1].name>>, "error")>>)
            /\ UNCHANGED <<consensus, returned>>
       ELSE /\ consensus' = <<ConsensusResponse(FinalAnswer(r.text))>>
            /\ events' = Emit(<<StageProgressEvent("consensus", <<>>,
                                   <<chairman[1].name>>, "completed")>>)
            /\ returned' = <<[initial_responses |-> initial_responses,
                              discussion_rounds |-> discussion_rounds,
                              consensus |-> consensus'[1]]>>
            /\ pc' = "done"
            /\ raised' = raised
    /\ UNCHANGED <<abandoned, run, other, drained, chat_history, max_chars>>
    /\ UNCHANGED <<gen, sent, saved>>
    /\ UNCHANGED <<models, chairman, on_progress, entry, round_num, pending,
                   results, initial_responses, discussion_rounds, calls>>

\* the chairman's call resolves; run_consensus_stage and run_full_council
\* run to their return, or the exception of the call leaves both
ResolveChair(r) ==
    /\ pc = "consensus_wait"
    /\ chair_pending
    /\ chair_pending' = FALSE
    /\ requests' = <<>>
    /\ IF IsException(r)
       THEN /\ pc' = "failed"
            /\ raised' = "GatewayError"
            /\ UNCHANGED <<consensus, returned, events>>
       ELSE /\ consensus' = <<ConsensusResponse(FinalAnswer(r.text))>>
            /\ events' = Emit(<<StageProgressEvent("consensus", <<>>,
                                   <<chairman[1].name>>, "completed")>>)
            /\ returned' = <<[initial_responses |-> initial_responses,
                              discussion_rounds |-> discussion_rounds,
                              consensus |-> consensus'[1]]>>
            /\ pc' = "done"
            /\ raised' = raised
    /\ UNCHANGED <<abandoned, run, other, drained, chat_history, max_chars>>
    /\ UNCHANGED <<gen, sent, saved>>
    /\ UNCHANGED <<models, chairman, on_progress, entry, round_num, pending,
                   results, initial_responses, discussion_rounds, calls>>

\* main.send_message_stream: the client disconnects and event_generator is
\* closed at its await; council_task, created with asyncio.create_task, is
\* neither awaited nor cancelled by it
Abandon ==
    /\ entry = "run_full_council"
    /\ on_progress
    /\ pc \notin {"boot", "startup_failed", "done", "failed"}
    /\ ~abandoned
    /\ abandoned' = TRUE
    /\ UNCHANGED <<models, chairman, on_progress, entry, pc, round_num,
                   requests, pending, results, chair_pending,
                   initial_responses, discussion_rounds, consensus, returned,
                   raised, events, calls, run, other, drained,
                   chat_history, max_chars, gen, sent, saved>>

\* main.send_message_stream, progress_callback: await progress_queue.put
\* returns once the queue holds the events the step gave to on_progress
Accepted == Len(events') - drained <= MaxQueue

\* an event of the response stream (an SSE "data:" line): its type and
\* its data
StreamEvent(type, data) == [type |-> type, data |-> data]

\* the messages of the chat: role and content
ChatMessage(role, content) == [role |-> role, content |-> content]

\* message_data.content of the request
UserContent == <<"question">>

\* council_task.done()
TaskDone == pc \in {"done", "failed"}

\* main.send_message_stream up to the creation of council_task in
\* event_generator: the user message is committed first
SendMessageStream ==
    /\ gen = "start"
    /\ entry = "run_full_council"
    /\ on_progress
    /\ pc = "idle"
    /\ ~abandoned
    /\ saved' = Append(saved, ChatMessage("user", UserContent))
    /\ gen' = "loop"
    /\ UNCHANGED sent
    /\ UNCHANGED <<models, chairman, on_progress, entry, pc, round_num,
                   requests, pending, results, chair_pending,
                   initial_responses, discussion_rounds, consensus, returned,
                   raised, events, calls, abandoned, run, other, drained,
                   chat_history, max_chars>>

\* event_generator: while not council_task.done()
LoopTop ==
    /\ gen = "loop"
    /\ ~abandoned
    /\ gen' = IF TaskDone THEN "join" ELSE "get"
    /\ UNCHANGED <<sent, saved>>
    /\ UNCHANGED <<models, chairman, on_progress, entry, pc, round_num,
                   requests, pending, results, chair_pending,
                   initial_responses, discussion_rounds, consensus, returned,
                   raised, events, calls, abandoned, run, other, drained,
                   chat_history, max_chars>>

\* mutant: the caller takes one event and never looks at the queue again
Drain_Once ==
    /\ on_progress
    /\ ~abandoned
    /\ gen \in {"get", "drain"}
    /\ drained = 0
    /\ drained < Len(events)
    /\ drained' = drained + 1
    /\ sent' = Append(sent, StreamEvent("progress", events[drained + 1]))
    /\ gen' = IF gen = "get" THEN "loop" ELSE gen
    /\ UNCHANGED saved
    /\ UNCHANGED <<models, chairman, on_progress, entry, pc, round_num,
                   requests, pending, results, chair_pending,
                   initial_responses, discussion_rounds, consensus, returned,
                   raised, events, calls, abandoned, run, other,
                   chat_history, max_chars>>

\* mutant: the events left in the queue when the task is done are dropped
Drain_NotAfterTask ==
    /\ on_progress
    /\ ~abandoned
    /\ \/ /\ gen = "get"
          /\ drained < Len(events)
          /\ drained' = drained + 1
          /\ sent' = Append(sent, StreamEvent("progress", events[drained + 1]))
          /\ gen' = "loop"
       \/ /\ gen = "drain"
          /\ drained < Len(events)
          /\ drained' = Len(events)
          /\ sent' = sent
          /\ gen' = gen
    /\ UNCHANGED saved
    /\ UNCHANGED <<models, chairman, on_progress, entry, pc, round_num,
                   requests, pending, results, chair_pending,
                   initial_responses, discussion_rounds, consensus, returned,
                   raised, events, calls, abandoned, run, other,
                   chat_history, max_chars>>

\* event_generator: progress_queue.get() and the yield of the event, in
\* the loop that runs until council_task is done, and in the loop after it
\* that runs until the queue is empty
Drain ==
    /\ on_progress
    /\ ~abandoned
    /\ gen \in {"get", "drain"}
    /\ drained < Len(events)
    /\ drained' = drained + 1
    /\ sent' = Append(sent, StreamEvent("progress", events[drained + 1]))
    /\ gen' = IF gen = "get" THEN "loop" ELSE gen
    /\ UNCHANGED saved
    /\ UNCHANGED <<models, chairman, on_progress, entry, pc, round_num,
                   requests, pending, results, chair_pending,
                   initial_responses, discussion_rounds, consensus, returned,
                   raised, events, calls, abandoned, run, other,
                   chat_history, max_chars>>

\* event_generator: asyncio.TimeoutError of wait_for, continue
GetTimeout ==
    /\ gen = "get"
    /\ ~abandoned
    /\ drained = Len(events)
    /\ gen' = "loop"
    /\ UNCHANGED <<sent, saved>>
    /\ UNCHANGED <<models, chairman, on_progress, entry, pc, round_num,
                   requests, pending, results, chair_pending,
                   initial_responses, discussion_rounds, consensus, returned,
                   raised, events, calls, abandoned, run, other, drained,
                   chat_history, max_chars>>

\* mutant: a failed run is answered with the error event and a done event
JoinTask_DoneAfterError ==
    /\ gen = "join"
    /\ ~abandoned
    /\ IF pc = "done"
       THEN /\ gen' = "drain"
            /\ sent' = sent
       ELSE /\ gen' = "closed"
            /\ sent' = sent \o <<StreamEvent("error", raised),
                                 StreamEvent("done", <<>>)>>
    /\ UNCHANGED saved
    /\ UNCHANGED <<models, chairman, on_progress, entry, pc, round_num,
                   requests, pending, results, chair_pending,
                   initial_responses, discussion_rounds, consensus, returned,
                   raised, events, calls, abandoned, run, other, drained,
                   chat_history, max_chars>>

\* event_generator: result = await council_task, and the except clause
\* when the task has raised
JoinTask ==
    /\ gen = "join"
    /\ ~abandoned
    /\ IF pc = "done"
       THEN /\ gen' = "drain"
            /\ sent' = sent
       ELSE /\ gen' = "closed"
            /\ sent' = Append(sent, StreamEvent("error", raised))
    /\ UNCHANGED saved
    /\ UNCHANGED <<models, chairman, on_progress, entry, pc, round_num,
                   requests, pending, results, chair_pending,
                   initial_responses, discussion_rounds, consensus, returned,
                   raised, events, calls, abandoned, run, other, drained,
                   chat_history, max_chars>>

\* event_generator: the queue is empty, yield initial_responses
SendInitialResponses ==
    /\ gen = "drain"
    /\ ~abandoned
    /\ drained = Len(events)
    /\ sent' = Append(sent, StreamEvent("initial_responses",
                                        returned[1].initial_responses))
    /\ gen' = "rounds"
    /\ UNCHANGED saved
    /\ UNCHANGED <<models, chairman, on_progress, entry, pc, round_num,
                   requests, pending, results, chair_pending,
                   initial_responses, discussion_rounds, consensus, returned,
                   raised, events, calls, abandoned, run, other, drained,
                   chat_history, max_chars>>

\* the discussion_round events yielded so far
RoundsSent == Len(SelectSeq(sent, LAMBDA e : e.type = "discussion_round"))

\* mutant: the rounds are sent from the last to the first
SendDiscussionRound_Backwards ==
    /\ gen = "rounds"
    /\ ~abandoned
    /\ RoundsSent < Len(returned[1].discussion_rounds)
    /\ sent' = Append(sent,
                  StreamEvent("discussion_round",
                     returned[1].discussion_rounds[
                        Len(returned[1].discussion_rounds) - RoundsSent]))
    /\ UNCHANGED <<gen, saved>>
    /\ UNCHANGED <<models, chairman, on_progress, entry, pc, round_num,
                   requests, pending, results, chair_pending,
                   initial_responses, discussion_rounds, consensus, returned,
                   raised, events, calls, abandoned, run, other, drained,
                   chat_history, max_chars>>

\* event_generator: for round_data in result['discussion_rounds']: yield
SendDiscussionRound ==
    /\ gen = "rounds"
    /\ ~abandoned
    /\ RoundsSent < Len(returned[1].discussion_rounds)
    /\ sent' = Append(sent,
                  StreamEvent("discussion_round",
                              returned[1].discussion_rounds[RoundsSent + 1]))
    /\ UNCHANGED <<gen, saved>>
    /\ UNCHANGED <<models, chairman, on_progress, entry, pc, round_num,
                   requests, pending, results, chair_pending,
                   initial_responses, discussion_rounds, consensus, returned,
                   raised, events, calls, abandoned, run, other, drained,
                   chat_history, max_chars>>

\* event_generator: yield consensus
SendConsensus ==
    /\ gen = "rounds"
    /\ ~abandoned
    /\ RoundsSent = Len(returned[1].discussion_rounds)
    /\ sent' = Append(sent, StreamEvent("consensus", returned[1].consensus))
    /\ gen' = "save"
    /\ UNCHANGED saved
    /\ UNCHANGED <<models, chairman, on_progress, entry, pc, round_num,
                   requests, pending, results, chair_pending,
                   initial_responses, discussion_rounds, consensus, returned,
                   raised, events, calls, abandoned, run, other, drained,
                   chat_history, max_chars>>

\* event_generator: the assistant message added and committed
SaveAssistantMessage ==
    /\ gen = "save"
    /\ ~abandoned
    /\ saved' = Append(saved,
                   ChatMessage("assistant", returned[1].consensus.final_answer))
    /\ gen' = "saved"
    /\ UNCHANGED sent
    /\ UNCHANGED <<models, chairman, on_progress, entry, pc, round_num,
                   requests, pending, results, chair_pending,
                   initial_responses, discussion_rounds, consensus, returned,
                   raised, events, calls, abandoned, run, other, drained,
                   chat_history, max_chars>>

\* event_generator: yield done
SendDone ==
    /\ gen = "saved"
    /\ ~abandoned
    /\ sent' = Append(sent, StreamEvent("done", <<>>))
    /\ gen' = "closed"
    /\ UNCHANGED saved
    /\ UNCHANGED <<models, chairman, on_progress, entry, pc, round_num,
                   requests, pending, results, chair_pending,
                   initial_responses, discussion_rounds, consensus, returned,
                   raised, events, calls, abandoned, run, other, drained,
                   chat_history, max_chars>>

\* the steps of event_generator
Generator ==
    \/ SendMessageStream
    \/ LoopTop
    \/ Drain
    \/ GetTimeout
    \/ JoinTask
    \/ SendInitialResponses
    \/ SendDiscussionRound
    \/ SendConsensus
    \/ SaveAssistantMessage
    \/ SendDone

\* the arguments and local variables of the call of run_full_council that
\* is running, and of the stage methods it is in
Locals ==
    [run |-> run, on_progress |-> on_progress, entry |-> entry, pc |-> pc,
     round_num |-> round_num, requests |-> requests, pending |-> pending,
     results |-> results, chair_pending |-> chair_pending,
     initial_responses |-> initial_responses,
     discussion_rounds |-> discussion_rounds, consensus |-> consensus,
     returned |-> returned, raised |-> raised, events |-> events,
     calls |-> calls, abandoned |-> abandoned, drained |-> drained]

\* the call whose locals are l goes on
Resume(l) ==
    /\ run' = l.run
    /\ on_progress' = l.on_progress
    /\ entry' = l.entry
    /\ pc' = l.pc
    /\ round_num' = l.round_num
    /\ requests' = l.requests
    /\ pending' = l.pending
    /\ results' = l.results
    /\ chair_pending' = l.chair_pending
    /\ initial_responses' = l.initial_responses
    /\ discussion_rounds' = l.discussion_rounds
    /\ consensus' = l.consensus
    /\ returned' = l.returned
    /\ raised' = l.raised
    /\ events' = l.events
    /\ calls' = l.calls
    /\ abandoned' = l.abandoned
    /\ drained' = l.drained

\* mutant: discussion_rounds kept on the orchestrator, one list for all calls
Switch_SharedRounds ==
    /\ other # <<>>
    /\ other' = <<Locals>>
    /\ Resume([other[1] EXCEPT !.discussion_rounds = discussion_rounds])
    /\ UNCHANGED <<models, chairman, chat_history, max_chars, gen, sent, saved>>

\* the event loop goes from one call of orchestrator.run_full_council to
\* the other: each call has its own locals, self.models and self.chairman
\* are the orchestrator's
Switch ==
    /\ other # <<>>
    /\ other' = <<Locals>>
    /\ Resume(other[1])
    /\ UNCHANGED <<models, chairman, chat_history, max_chars, gen, sent, saved>>

\* what the gateway answers to the calls of run r when two calls of
\* run_full_council are in progress
InitialAnswer(r) == IF r = 1 THEN Ok(<<"answer">>) ELSE Timeout
RoundAnswer(r) ==
    IF r = 1 THEN Ok(<<"{content,0.95,[k]}">>) ELSE Ok(<<"plain">>)
ChairAnswer(r) ==
    IF r = 1 THEN Ok(<<"final">>)
    ELSE Ok(<<Fence, "markdown", Newline, "verdict", Newline, Fence>>)

\* a call of _format_chat_history_toon
FormatChatHistory ==
    /\ entry = "_format_chat_history_toon"
    /\ pc = "idle"
    /\ returned' = <<_format_chat_history_toon(chat_history, max_chars)>>
    /\ pc' = "done"
    /\ UNCHANGED <<models, chairman, on_progress, entry, round_num, requests,
                   pending, results, chair_pending, initial_responses,
                   discussion_rounds, consensus, raised, events, calls,
                   abandoned, run, other, drained, chat_history, max_chars,
                   gen, sent, saved>>

----------------------------------------------------------------------------
(* Specifications *)

\* the state of a freshly started process before the call of method m
\* with the roster drawn from rosters
Fresh(rosters, m) ==
    /\ models \in rosters
    /\ chairman = <<>>
    /\ on_progress \in BOOLEAN
    /\ entry = m
    /\ pc = "boot"
    /\ requests = <<>>
    /\ pending = {}
    /\ results = <<>>
    /\ chair_pending = FALSE
    /\ consensus = <<>>
    /\ returned = <<>>
    /\ raised = "none"
    /\ events = <<>>
    /\ calls = <<>>
    /\ abandoned = FALSE
    /\ run = 1
    /\ other = <<>>
    /\ drained = 0
    /\ chat_history = <<>>
    /\ max_chars = DefaultMaxChars
    /\ gen = "start"
    /\ sent = <<>>
    /\ saved = <<>>

\* the arguments of a round invoked on its own: the first round after an
\* initial stage in which every agent answered
OwnRoundArguments ==
    /\ initial_responses =
           [i \in DOMAIN models |-> InitialTurn(models[i], Ok(<<"answer">>))]
    /\ discussion_rounds = <<>>
    /\ round_num = 1

NoArguments ==
    /\ initial_responses = <<>>
    /\ discussion_rounds = <<>>
    /\ round_num = 0

\* a call of run_full_council
Init == Fresh(RunRosters, "run_full_council") /\ NoArguments

Next ==
    \/ Startup
    \/ StartInitialStage
    \/ DispatchInitialStage
    \/ \E p \in pending :
          \E r \in IF pc = "initial_wait" THEN InitialResults ELSE RoundResults :
             Resolve(p, r)
    \/ FinishInitialStage
    \/ StartDiscussionRound
    \/ DispatchDiscussionRound
    \/ FinishDiscussionRound
    \/ StartConsensusStage
    \/ DispatchConsensusStage
    \/ \E r \in ChairResults : ResolveChair(r)

Spec == Init /\ [][Next]_vars

\* a call of run_initial_stage or of run_discussion_round on its own, over
\* every roster of up to MaxAgents entries
InitStage ==
    \/ Fresh(Rosters, "run_initial_stage") /\ NoArguments
    \/ Fresh(Rosters, "run_discussion_round") /\ OwnRoundArguments

NextStage ==
    \/ Startup
    \/ StartInitialStage
    \/ DispatchInitialStage
    \/ \E p \in pending :
          \E r \in IF pc = "initial_wait" THEN InitialResults ELSE RoundResults :
             Resolve(p, r)
    \/ ReturnInitialStage
    \/ StartDiscussionRound
    \/ DispatchDiscussionRound
    \/ ReturnDiscussionRound

SpecStage == InitStage /\ [][NextStage]_vars

\* a call of run_discussion_round on its own with a roster of one, the
\* gateway answering any text of AllTexts
InitParse ==
    /\ Fresh({ <<Model(1, "chairman")>> }, "run_discussion_round")
    /\ OwnRoundArguments

NextParse ==
    \/ Startup
    \/ StartDiscussionRound
    \/ DispatchDiscussionRound
    \/ \E p \in pending : \E r \in AllResults : Resolve(p, r)
    \/ ReturnDiscussionRound

SpecParse == InitParse /\ [][NextParse]_vars

\* a call of run_full_council by main.send_message_stream, whose client may
\* disconnect at any time
InitStream ==
    /\ Fresh(RunRosters, "run_full_council")
    /\ NoArguments
    /\ on_progress

NextStream ==
    \/ Startup
    \/ StartInitialStage
    \/ DispatchInitialStage
    \/ \E p \in pending :
          \E r \in IF pc = "initial_wait" THEN InitialResults ELSE RoundResults :
             Resolve(p, r)
    \/ FinishInitialStage
    \/ StartDiscussionRound
    \/ DispatchDiscussionRound
    \/ FinishDiscussionRound
    \/ StartConsensusStage
    \/ DispatchConsensusStage
    \/ \E r \in ChairResults : ResolveChair(r)
    \/ Abandon

SpecStream == InitStream /\ [][NextStream]_vars

\* the locals of a call of run_full_council that has not taken a step
NotStarted(r, callback) ==
    [run |-> r, on_progress |-> callback, entry |-> "run_full_council",
     pc |-> "idle", round_num |-> 0, requests |-> <<>>, pending |-> {},
     results |-> <<>>, chair_pending |-> FALSE, initial_responses |-> <<>>,
     discussion_rounds |-> <<>>, consensus |-> <<>>, returned |-> <<>>,
     raised |-> "none", events |-> <<>>, calls |-> <<>>, abandoned |-> FALSE,
     drained |-> 0]

\* two calls of run_full_council on the orchestrator of a started process:
\* call 1 by main.send_message_stream, with a callback, call 2 by
\* main.send_message, without
InitTwo ==
    /\ models = COUNCIL_MODELS
    /\ chairman = <<FirstChairman(COUNCIL_MODELS)>>
    /\ run = 1
    /\ on_progress = TRUE
    /\ entry = "run_full_council"
    /\ pc = "idle"
    /\ NoArguments
    /\ requests = <<>>
    /\ pending = {}
    /\ results = <<>>
    /\ chair_pending = FALSE
    /\ consensus = <<>>
    /\ returned = <<>>
    /\ raised = "none"
    /\ events = <<>>
    /\ calls = <<>>
    /\ abandoned = FALSE
    /\ drained = 0
    /\ chat_history = <<>>
    /\ max_chars = DefaultMaxChars
    /\ gen = "start"
    /\ sent = <<>>
    /\ saved = <<>>
    /\ other = <<NotStarted(2, FALSE)>>

NextTwo ==
    \/ StartInitialStage
    \/ DispatchInitialStage
    \/ \E p \in pending :
          Resolve(p, IF pc = "initial_wait" THEN InitialAnswer(run)
                     ELSE RoundAnswer(run))
    \/ FinishInitialStage
    \/ StartDiscussionRound
    \/ DispatchDiscussionRound
    \/ FinishDiscussionRound
    \/ StartConsensusStage
    \/ DispatchConsensusStage
    \/ ResolveChair(ChairAnswer(run))
    \/ Switch

SpecTwo == InitTwo /\ [][NextTwo]_vars

\* a request to main.send_message_stream: the run as council_task, created
\* by event_generator, and event_generator itself, with progress_queue as
\* the code creates it, without a capacity.  A roster of one agent keeps
\* the interleavings of the two within reach.
\* main.send_message up to the call of run_full_council, which is made
\* without on_progress: the user message is committed first
SendMessage ==
    /\ gen = "start"
    /\ entry = "run_full_council"
    /\ ~on_progress
    /\ pc = "idle"
    /\ ~abandoned
    /\ saved' = Append(saved, ChatMessage("user", UserContent))
    /\ gen' = "sync"
    /\ UNCHANGED <<sent, drained>>
    /\ UNCHANGED <<models, chairman, on_progress, entry, pc, round_num,
                   requests, pending, results, chair_pending,
                   initial_responses, discussion_rounds, consensus, returned,
                   raised, events, calls, abandoned, run, other,
                   chat_history, max_chars>>

\* main.send_message after run_full_council: the assistant message is
\* added and committed when the run returned; when it raised, the
\* exception leaves send_message before anything is added
SendMessageReturn ==
    /\ gen = "sync"
    /\ TaskDone
    /\ saved' = IF pc = "done"
                THEN Append(saved,
                            ChatMessage("assistant",
                                        returned[1].consensus.final_answer))
                ELSE saved
    /\ gen' = "returned"
    /\ UNCHANGED <<sent, drained>>
    /\ UNCHANGED <<models, chairman, on_progress, entry, pc, round_num,
                   requests, pending, results, chair_pending,
                   initial_responses, discussion_rounds, consensus, returned,
                   raised, events, calls, abandoned, run, other,
                   chat_history, max_chars>>

\* a request to either endpoint of the chat: send_message_stream runs the
\* council with the progress callback, send_message without
InitSSE ==
    /\ Fresh({ <<Model(1, "chairman")>> }, "run_full_council")
    /\ NoArguments

NextSSE ==
    \/ Startup
    \/ gen # "start" /\ StartInitialStage
    \/ DispatchInitialStage
    \/ \E p \in pending :
          \E r \in IF pc = "initial_wait" THEN InitialResults ELSE RoundResults :
             Resolve(p, r)
    \/ FinishInitialStage
    \/ StartDiscussionRound
    \/ DispatchDiscussionRound
    \/ FinishDiscussionRound
    \/ StartConsensusStage
    \/ DispatchConsensusStage
    \/ \E r \in ChairResults : ResolveChair(r)
    \/ Generator
    \/ SendMessage
    \/ SendMessageReturn

SpecSSE == InitSSE /\ [][NextSSE]_vars

\* a call of _format_chat_history_toon on the orchestrator of a started
\* process, with any history and any budget
InitHistory ==
    /\ models = COUNCIL_MODELS
    /\ chairman = <<FirstChairman(COUNCIL_MODELS)>>
    /\ on_progress = FALSE
    /\ entry = "_format_chat_history_toon"
    /\ pc = "idle"
    /\ NoArguments
    /\ requests = <<>>
    /\ pending = {}
    /\ results = <<>>
    /\ chair_pending = FALSE
    /\ consensus = <<>>
    /\ returned = <<>>
    /\ raised = "none"
    /\ events = <<>>
    /\ calls = <<>>
    /\ abandoned = FALSE
    /\ run = 1
    /\ other = <<>>
    /\ drained = 0
    /\ gen = "start"
    /\ sent = <<>>
    /\ saved = <<>>
    /\ chat_history \in Histories
    /\ max_chars \in Budgets

NextHistory == FormatChatHistory

SpecHistory == InitHistory /\ [][NextHistory]_vars

\* a call of run_full_council whose chairman answers with any text: a
\* roster of one agent, whose round reaches high confidence at once
InitChair ==
    /\ Fresh({ <<Model(1, "chairman")>> }, "run_full_council")
    /\ NoArguments

NextChair ==
    \/ Startup
    \/ StartInitialStage
    \/ DispatchInitialStage
    \/ \E p \in pending :
          \E r \in IF pc = "initial_wait" THEN InitialResults
                    ELSE {Ok(<<"{content,1.0,[k]}">>)} :
             Resolve(p, r)
    \/ FinishInitialStage
    \/ StartDiscussionRound
    \/ DispatchDiscussionRound
    \/ FinishDiscussionRound
    \/ StartConsensusStage
    \/ DispatchConsensusStage
    \/ \E r \in AllResults : ResolveChair(r)

SpecChair == InitChair /\ [][NextChair]_vars

\* the display names a roster entry can have
DisplayNames == 1..Len(COUNCIL_MODELS)

\* rosters of the configured shape, a chairman and a participant, under
\* every choice of display names: config.py does not look at the names
NamedRosters ==
    { [i \in DOMAIN COUNCIL_MODELS |-> [COUNCIL_MODELS[i] EXCEPT !.name = f[i]]]
        : f \in [DOMAIN COUNCIL_MODELS -> DisplayNames] }

\* a call of run_full_council over such a roster
InitNames == Fresh(NamedRosters, "run_full_council") /\ NoArguments

SpecNames == InitNames /\ [][Next]_vars

\* a call of run_full_council by main.send_message_stream whose
\* progress_queue holds at most MaxQueue events: a roster of one agent, so
\* that a step of the run makes at most one put
InitQueue ==
    /\ Fresh({<<Model(1, "chairman")>>}, "run_full_council")
    /\ NoArguments
    /\ on_progress

\* the steps of council_task, the task of the run
RunQueue ==
    \/ Startup
    \/ gen # "start" /\ StartInitialStage /\ Accepted
    \/ DispatchInitialStage
    \/ \E p \in pending :
          \E r \in IF pc = "initial_wait" THEN InitialResults ELSE RoundResults :
             Resolve(p, r)
    \/ FinishInitialStage /\ Accepted
    \/ StartDiscussionRound /\ Accepted
    \/ DispatchDiscussionRound
    \/ StartConsensusStage /\ Accepted
    \/ DispatchConsensusStage
    \/ \E r \in ChairResults : ResolveChair(r) /\ Accepted

NextQueue ==
    \/ RunQueue
    \/ FinishDiscussionRound /\ Accepted
    \/ Generator

\* the gathered round can be processed whatever it emits
RoundReady ==
    /\ pc = "round_wait"
    /\ Gathered
    /\ drained = Len(events)

\* every gateway call resolves (openrouter.chat_completion has a timeout),
\* the event loop runs every task that can go on, and event_generator asks
\* the queue again every half second while council_task is not done.  The
\* fairness of the processing of a round is written out, with RoundReady
\* as the condition under which it can go on.
SpecQueue ==
    /\ InitQueue
    /\ [][NextQueue]_vars
    /\ WF_vars(RunQueue)
    /\ WF_vars(Generator)
    /\ <>[]RoundReady => []<><<FinishDiscussionRound>>_vars


----------------------------------------------------------------------------
(* Claims *)

\* the run has entered the consensus stage
ReachedConsensus ==
    \/ pc \in {"consensus_start", "consensus_dispatch", "consensus_wait",
               "done"}
    \/ raised = "GatewayError"

\* the arithmetic mean of the round's confidences is strictly greater than
\* 0.95 = 19/20 (confidences are in hundredths)
MeanAbove(round) ==
    20 * SumSeq(Confidences(round.responses)) > 19 * 100 * Len(round.responses)

MeanExactly(round) ==
    20 * SumSeq(Confidences(round.responses)) = 19 * 100 * Len(round.responses)

\* C1: in every run that reaches the consensus stage the number of rounds
\* produced is between 1 and MAX_DISCUSSION_ROUNDS, no round but the last
\* has a mean confidence above 0.95, and the last round either has a mean
\* above 0.95 or is round MAX_DISCUSSION_ROUNDS.
C1_RoundsUntilHighConfidence ==
    ReachedConsensus =>
        /\ Len(discussion_rounds) \in 1..MAX_DISCUSSION_ROUNDS
        /\ \A k \in DOMAIN discussion_rounds :
              /\ discussion_rounds[k].round_number = k
              /\ MeanAbove(discussion_rounds[k]) => k = Len(discussion_rounds)
        /\ Len(discussion_rounds) < MAX_DISCUSSION_ROUNDS
              => MeanAbove(discussion_rounds[Len(discussion_rounds)])

\* a run that returned after two rounds: round 1 had a mean of exactly 0.95
\* and did not stop the loop, round 2 had a mean above it
C1_Witness ==
    /\ pc = "done"
    /\ Len(discussion_rounds) = 2
    /\ MeanExactly(discussion_rounds[1])
    /\ MeanAbove(discussion_rounds[2])

\* a stage is waiting for its gateway calls
Waiting == pc \in {"initial_wait", "round_wait"}

\* C2 (as claimed): whichever agents' gateway calls fail, the initial stage
\* and every discussion round still return one turn per roster agent; each
\* failing agent's turn has confidence 0, no key points and the error
\* marker as content, and every other agent's turn is the one its own
\* result gives.
C2_FailuresAreIsolated ==
    [][ (Waiting /\ ~Waiting' /\ \E p \in DOMAIN results : IsException(results[p]))
        => /\ pc' # "failed"
           /\ LET turns == IF pc = "initial_wait" THEN initial_responses'
                           ELSE discussion_rounds'[Len(discussion_rounds')].responses
              IN  /\ Len(turns) = Len(models)
                  /\ \A p \in DOMAIN models :
                        IF IsException(results[p])
                        THEN /\ turns[p].confidence = 0
                             /\ turns[p].key_points = <<>>
                             /\ turns[p].content = <<"Oshibka: ">> \o results[p].text
                        ELSE IF pc = "initial_wait"
                        THEN turns[p] = InitialTurn(models[p], results[p])
                        ELSE <<turns[p]>> =
                             DiscussionTurn(models[p], results[p], round_num).turn
      ]_vars

\* C3: run_initial_stage returns exactly one turn per roster entry, in
\* roster order, each with round_number 0 and stage initial, whatever the
\* mix of successes and failures.
C3_InitialStageTurns ==
    (entry = "run_initial_stage" /\ pc = "done") =>
        /\ Len(returned) = 1
        /\ Len(returned[1]) = Len(models)
        /\ \A i \in DOMAIN models :
              /\ returned[1][i].model_id = models[i].id
              /\ returned[1][i].model_name = models[i].name
              /\ returned[1][i].round_number = 0
              /\ returned[1][i].stage = "initial"

\* run_initial_stage returned over a roster of three with exactly one
\* chairman, one call having failed and another having succeeded
C3_Witness ==
    /\ entry = "run_initial_stage"
    /\ pc = "done"
    /\ Len(models) = 3
    /\ Cardinality({ i \in DOMAIN models : models[i].role = "chairman" }) = 1
    /\ \E i, j \in DOMAIN returned[1] :
          /\ returned[1][i].confidence = 0
          /\ returned[1][j].confidence = DefaultConfidence

\* C4 (as claimed): whatever text the agent returned, run_discussion_round
\* completes with a turn for every roster agent and raises nothing.
C4_RoundNeverFailsOnText ==
    (entry = "run_discussion_round"
     /\ pc \notin {"boot", "idle", "round_dispatch", "round_wait"}) =>
        /\ pc = "done"
        /\ raised = "none"
        /\ Len(returned[1].responses) = Len(models)

\* the JSON documents that are objects holding a string content, a number
\* confidence and a list key_points
ValidPayloads ==
    { t \in JsonTokens :
        /\ JsonDocs[t].kind = "object"
        /\ JsonDocs[t].content.ty = "str"
        /\ JsonDocs[t].confidence.ty = "num"
        /\ JsonDocs[t].key_points.ty = "list" }

\* the texts that are the payload tok wrapped in a single code fence
FencedForms(tok) ==
    { <<Fence>> \o lang \o <<Newline, tok>> \o nl \o <<Fence>> :
         lang \in { <<>>, <<"json">> }, nl \in { <<>>, <<Newline>> } }
    \cup { <<Fence, tok, Fence>> }

\* no part of the text is a JSON document
Undecodable(text) == \A i \in DOMAIN text : text[i] \notin JsonTokens

\* C5 (as claimed): a response that is valid structured data wrapped in a
\* single code fence gives a turn with the payload's content, confidence
\* and key_points; a response that cannot be decoded gives a turn whose
\* content is the raw text, whose confidence is 0.8 and whose key_points
\* are empty.
C5_PayloadOrFallback ==
    [][ (entry = "run_discussion_round" /\ pc = "round_wait" /\ pc' # "round_wait"
         /\ Len(models) = 1 /\ results[1].kind = "text")
        => /\ \A tok \in ValidPayloads :
                 Strip(results[1].text) \in FencedForms(tok) =>
                    /\ pc' = "done"
                    /\ returned'[1].responses[1].content = JsonDocs[tok].content.str
                    /\ returned'[1].responses[1].confidence = JsonDocs[tok].confidence.num
                    /\ returned'[1].responses[1].key_points = JsonDocs[tok].key_points.list
           /\ Undecodable(results[1].text) =>
                 /\ pc' = "done"
                 /\ returned'[1].responses[1].content = results[1].text
                 /\ returned'[1].responses[1].confidence = 80
                 /\ returned'[1].responses[1].key_points = <<>>
      ]_vars

\* C6 (as claimed): the request built for roster position i in a discussion
\* round shows none of position i's own earlier turns, neither its initial
\* turn nor its turn of any earlier round.
C6_SelfExclusion ==
    \A i \in DOMAIN requests :
        requests[i].stage = "discussion" =>
            /\ \A j \in DOMAIN requests[i].initial :
                  requests[i].initial[j].src # i
            /\ \A k \in DOMAIN requests[i].rounds :
                  \A j \in DOMAIN requests[i].rounds[k].pieces :
                     requests[i].rounds[k].pieces[j].src # i

\* the place of a call in the order of the stages
StageRank(call) ==
    IF call.stage = "initial" THEN 0
    ELSE IF call.stage = "discussion" THEN call.round_number
    ELSE MAX_DISCUSSION_ROUNDS + 1

\* C7: whenever gateway calls are dispatched no earlier call is unresolved,
\* every earlier call belongs to an earlier stage, and the chairman's call
\* is dispatched only once the loop has stopped (the last round had a mean
\* above 0.95 or was round MAX_DISCUSSION_ROUNDS).
C7_StagesNeverOverlap ==
    [][ calls' # calls =>
          /\ pending = {}
          /\ ~chair_pending
          /\ Len(calls') > Len(calls)
          /\ \A j \in DOMAIN calls :
                \A n \in (Len(calls) + 1)..Len(calls') :
                   /\ calls'[j] = calls[j]
                   /\ StageRank(calls[j]) < StageRank(calls'[n])
          /\ calls'[Len(calls')].stage = "consensus" =>
                /\ discussion_rounds # <<>>
                /\ \/ Len(discussion_rounds) = MAX_DISCUSSION_ROUNDS
                   \/ MeanAbove(discussion_rounds[Len(discussion_rounds)])
      ]_vars

\* the chairman's call is in flight after three rounds over two agents
C7_Witness ==
    /\ pc = "consensus_wait"
    /\ chair_pending
    /\ Len(models) = 2
    /\ Len(discussion_rounds) = 3
    /\ Len(calls) = 9

\* C8: a stage puts one request per roster agent in flight, all at once,
\* and neither leaves its wait nor hands anything to its caller while one
\* of them is unresolved.
C8_JoinBarrier ==
    [][ /\ (~Waiting /\ Waiting') =>
              /\ pending' = DOMAIN models
              /\ Len(requests') = Len(models)
              /\ \A i \in DOMAIN models : requests'[i].model = models[i].id
              /\ calls' = calls \o [i \in DOMAIN models |-> CallOf(requests'[i])]
        /\ (Waiting /\ ~Waiting') => pending = {}
        /\ returned' # returned => pending = {}
      ]_vars

\* a discussion round over three agents with two calls resolved, one still
\* in flight and nothing returned
C8_Witness ==
    /\ pc = "round_wait"
    /\ Len(models) = 3
    /\ Cardinality(pending) = 1
    /\ returned = <<>>

ConsensusCalls == { j \in DOMAIN calls : calls[j].stage = "consensus" }

\* C9: the consensus stage is never called on twice, and a run that
\* returned made exactly one consensus call, addressed to the chairman's
\* id, and created one ConsensusResponse whose consensus_reached is true.
C9_OneCallToTheChair ==
    /\ Cardinality(ConsensusCalls) <= 1
    /\ pc # "done" => consensus = <<>>
    /\ pc = "done" =>
          /\ Cardinality(ConsensusCalls) = 1
          /\ \A j \in ConsensusCalls :
                \E i \in DOMAIN models :
                   /\ models[i].role = "chairman"
                   /\ calls[j].model = models[i].id
                   /\ chairman = <<models[i]>>
          /\ Len(consensus) = 1
          /\ consensus[1].consensus_reached = TRUE
          /\ returned = <<[initial_responses |-> initial_responses,
                           discussion_rounds |-> discussion_rounds,
                           consensus |-> consensus[1]]>>

\* a run of one round returned whose chairman is the second roster entry,
\* the first being a participant
C9_Witness ==
    /\ pc = "done"
    /\ Len(models) = 2
    /\ chairman[1].id = 2
    /\ models[1].role = "participant"
    /\ consensus[1].final_answer = <<"final">>
    /\ Len(discussion_rounds) = 1

\* C10: when the chairman's call fails the run raises, hands nothing to its
\* caller, creates no ConsensusResponse and has called the chairman once.
C10_ChairFailureRaises ==
    raised = "GatewayError" =>
        /\ pc = "failed"
        /\ returned = <<>>
        /\ consensus = <<>>
        /\ ~chair_pending
        /\ Cardinality(ConsensusCalls) = 1

\* the chairman's call failed after the rounds had completed
C10_Witness ==
    /\ raised = "GatewayError"
    /\ pc = "failed"
    /\ Len(discussion_rounds) = MAX_DISCUSSION_ROUNDS
    /\ Len(initial_responses) = 2

\* C11: the resolution of a call fills the slot of its own roster position
\* and no other, and the turns a stage returns are in roster order, the
\* turn at position i carrying the id and name of roster entry i and what
\* the code makes of the result of entry i's own call.
C11_RosterOrderAttribution ==
    [][ /\ \A p \in pending \ pending' :
              /\ results'[p] # Unresolved
              /\ \A q \in DOMAIN results \ {p} : results'[q] = results[q]
        /\ (pc = "initial_wait" /\ pc' = "done") =>
              /\ Len(returned'[1]) = Len(models)
              /\ \A i \in DOMAIN models :
                    /\ returned'[1][i].model_id = models[i].id
                    /\ returned'[1][i].model_name = models[i].name
                    /\ returned'[1][i] = InitialTurn(models[i], results[i])
        /\ (pc = "round_wait" /\ pc' = "done") =>
              /\ Len(returned'[1].responses) = Len(models)
              /\ \A i \in DOMAIN models :
                    /\ returned'[1].responses[i].model_id = models[i].id
                    /\ returned'[1].responses[i].model_name = models[i].name
                    /\ <<returned'[1].responses[i]>> =
                          DiscussionTurn(models[i], results[i], round_num).turn
      ]_vars

\* a round over three agents returned three different turns: the first
\* agent's call failed, the second answered a confidence of 1.0 and the
\* third a plain text
C11_Witness ==
    /\ entry = "run_discussion_round"
    /\ pc = "done"
    /\ Len(models) = 3
    /\ returned[1].responses[1].confidence = 0
    /\ returned[1].responses[2].confidence = 100
    /\ returned[1].responses[3].content = <<"plain">>

\* the calls of one stage invocation addressed to one model id
CallsTo(stage, round_number, id) ==
    { j \in DOMAIN calls :
        /\ calls[j].stage = stage
        /\ calls[j].round_number = round_number
        /\ calls[j].model = id }

\* C12: every stage invocation that has dispatched made exactly one call per
\* roster agent (so no call, failed or not, was issued again), the chairman
\* is called at most once, and a run that has gone through k rounds has
\* made N * (1 + k) stage calls.
C12_NoRetry ==
    /\ \A j \in DOMAIN calls :
          calls[j].stage # "consensus" =>
             \A i \in DOMAIN models :
                Cardinality(CallsTo(calls[j].stage, calls[j].round_number,
                                    models[i].id)) = 1
    /\ Cardinality(ConsensusCalls) <= 1
    /\ ReachedConsensus =>
          Cardinality(DOMAIN calls \ ConsensusCalls) =
             Len(models) * (1 + Len(discussion_rounds))

\* a run over two agents returned after two rounds, having made seven
\* calls, one of which (an initial call) had failed
C12_Witness ==
    /\ pc = "done"
    /\ Len(models) = 2
    /\ Len(discussion_rounds) = 2
    /\ Len(calls) = 7
    /\ \E i \in DOMAIN initial_responses : initial_responses[i].confidence = 0

\* the "started" events given to the callback for one stage invocation
StartedEvents(stage, round_number) ==
    { n \in DOMAIN events :
        /\ events[n].status = "started"
        /\ events[n].stage = stage
        /\ events[n].round_number = round_number }

\* the round number a stage invocation puts in its events
EventRound(call) ==
    IF call.stage = "discussion" THEN <<call.round_number>> ELSE <<>>

\* no stage invocation has emitted "started" twice, and every call received
\* by the gateway belongs to a stage invocation that emitted it
OneStartedPerStage ==
    /\ \A n \in DOMAIN events :
          events[n].status = "started" =>
             Cardinality(StartedEvents(events[n].stage,
                                       events[n].round_number)) = 1
    /\ \A j \in DOMAIN calls :
          Cardinality(StartedEvents(calls[j].stage, EventRound(calls[j]))) = 1

\* C13: with a progress callback, every stage invocation emits exactly one
\* "started" event, and has emitted it before the step that dispatches its
\* gateway requests; the initial stage's event has stage initial.
C13_StartedBeforeDispatch ==
    [][ on_progress =>
          /\ OneStartedPerStage'
          /\ \A j \in DOMAIN calls' \ DOMAIN calls :
                /\ StartedEvents(calls'[j].stage, EventRound(calls'[j])) # {}
                /\ events' = events
          /\ (pc = "idle" /\ pc' = "initial_dispatch") =>
                events' = Append(events, StageProgressEvent(
                                             "initial", <<>>, <<>>, "started"))
      ]_vars

\* round 2 has emitted its "started" event, the fourth of the run, and has
\* not dispatched yet: the gateway has only the calls of the initial stage
\* and of round 1
C13_Witness ==
    /\ on_progress
    /\ pc = "round_dispatch"
    /\ round_num = 2
    /\ Len(models) = 2
    /\ Cardinality({ n \in DOMAIN events : events[n].status = "started" }) = 3
    /\ events[Len(events)] =
          StageProgressEvent("discussion", <<2>>, <<>>, "started")
    /\ Len(calls) = 4

\* the stage of the events of the stage that is waiting
WaitingStage == IF pc = "initial_wait" THEN "initial" ELSE "discussion"

WaitingRound == IF pc = "initial_wait" THEN <<>> ELSE <<round_num>>

\* the terminal event the claims expect for roster position p, given what
\* its call resolved to
TerminalEvent(p, result) ==
    StageProgressEvent(WaitingStage, WaitingRound, <<models[p].name>>,
                       IF IsException(result) THEN "errored" ELSE "completed")

\* C14 (as claimed): with a progress callback, a stage that leaves its wait
\* has emitted exactly one terminal event per roster agent, whose status is
\* completed when the agent's call succeeded and errored when it failed.
C14_TerminalEventPerAgent ==
    [][ (on_progress /\ Waiting /\ ~Waiting') =>
          \E order \in [DOMAIN models -> DOMAIN models] :
             /\ \A p \in DOMAIN models : \E n \in DOMAIN models : order[n] = p
             /\ events' = events \o [n \in DOMAIN models |->
                                       TerminalEvent(order[n], results[order[n]])]
      ]_vars

\* C15 (as claimed): with a progress callback, the terminal event of an
\* agent is emitted when that agent's call resolves, whatever calls of the
\* stage are still in flight, so that the events follow the order in which
\* the results became available.
C15_EventsInCompletionOrder ==
    [][ on_progress =>
          \A p \in pending \ pending' :
             /\ Len(events') = Len(events) + 1
             /\ events'[Len(events')].model_name = <<models[p].name>>
             /\ events'[Len(events')].status # "started"
      ]_vars

\* C16 (as claimed): every turn of a returned discussion round has a
\* confidence within [0, 1] (0..100 hundredths), whatever confidence the
\* agent's structured response reports.
C16_ConfidenceInUnitInterval ==
    (entry = "run_discussion_round" /\ pc = "done") =>
        \A i \in DOMAIN returned[1].responses :
           returned[1].responses[i].confidence \in 0..100

Chairs == { i \in DOMAIN models : models[i].role = "chairman" }

\* C18 (as claimed): startup fails exactly when the roster does not have
\* exactly one chairman.
C18_ExactlyOneChair ==
    pc # "boot" => (pc = "startup_failed" <=> Cardinality(Chairs) # 1)

\* C19 (as claimed): when the streaming caller abandons the run, the
\* gateway calls in flight are cancelled, and from then on no call of the
\* run resolves and no further call is dispatched.
C19_AbandonCancels ==
    [][ /\ (~abandoned /\ abandoned') => (pending' = {} /\ ~chair_pending')
        /\ abandoned => (calls' = calls /\ results' = results
                         /\ chair_pending' = chair_pending)
      ]_vars

\* what run r returns when it is the only call in progress
AloneInitial(r) ==
    [i \in DOMAIN models |-> InitialTurn(models[i], InitialAnswer(r))]

AloneRound(r, k) ==
    DiscussionRound(k, [i \in DOMAIN models |->
                           DiscussionTurn(models[i], RoundAnswer(r), k).turn[1]])

RECURSIVE AloneRoundsFrom(_, _)
AloneRoundsFrom(r, k) ==
    IF HighConfidenceReached(AloneRound(r, k).responses)
       \/ k = MAX_DISCUSSION_ROUNDS
    THEN <<AloneRound(r, k)>>
    ELSE <<AloneRound(r, k)>> \o AloneRoundsFrom(r, k + 1)

AloneRounds(r) == AloneRoundsFrom(r, 1)

AloneResult(r) ==
    [initial_responses |-> AloneInitial(r),
     discussion_rounds |-> AloneRounds(r),
     consensus |-> ConsensusResponse(FinalAnswer(ChairAnswer(r).text))]

\* C20: of two calls of run_full_council in progress on the one
\* orchestrator, under every interleaving, each builds its prompts from its
\* own turns only and returns what it returns when run alone with the same
\* gateway answers; a call without a callback sees no event; the roster and
\* the chairman are never modified.
C20_RunsDoNotInterfere ==
    /\ models = COUNCIL_MODELS
    /\ chairman = <<FirstChairman(COUNCIL_MODELS)>>
    /\ raised = "none"
    /\ ~on_progress => events = <<>>
    /\ pc = "round_wait" =>
          requests = DiscussionRequests(models, AloneInitial(run),
                        SubSeq(AloneRounds(run), 1, round_num - 1), round_num)
    /\ pc = "consensus_wait" =>
          requests = <<ConsensusRequest(chairman[1], AloneInitial(run),
                                        AloneRounds(run))>>
    /\ pc = "done" => returned = <<AloneResult(run)>>

\* call 2 has returned while call 1 is in its second round with the call of
\* the first agent in flight
C20_Witness ==
    /\ run = 2
    /\ pc = "done"
    /\ returned = <<AloneResult(2)>>
    /\ other[1].run = 1
    /\ other[1].pc = "round_wait"
    /\ other[1].round_num = 2
    /\ other[1].pending = {1}

\* C21: with a progress_queue of bounded capacity that makes on_progress
\* wait, and a caller that drains it as send_message_stream does, every
\* stage completes: once the gateway calls of a stage have resolved the run
\* does not wait in that stage forever
C21_StagesCompleteUnderBackpressure ==
    /\ (Waiting /\ pending = {}) ~> ~Waiting
    /\ (pc \in {"idle", "round_start", "consensus_start"}) ~> Waiting
                                                         \/ chair_pending
    /\ chair_pending ~> (pc \in {"done", "failed"})

\* the calls of the initial stage have resolved and the queue is full: the
\* next put of the run has to wait for the caller
C21_Witness ==
    /\ pc = "initial_wait"
    /\ pending = {}
    /\ on_progress
    /\ Len(events) - drained = MaxQueue

\* the characters of a label, as code points: the word, a space, the letter
LabelChars(label) == label.word \o <<32, label.letter>>

\* a < b for Python strings: by code point, a proper prefix first
RECURSIVE StrLess(_, _)
StrLess(a, b) ==
    IF b = <<>> THEN FALSE
    ELSE IF a = <<>> THEN TRUE
    ELSE IF Head(a) # Head(b) THEN Head(a) < Head(b)
    ELSE StrLess(Tail(a), Tail(b))

\* the labels shown to agent i in the initial section of its prompt
ShownLabels(i) ==
    [n \in DOMAIN requests[i].initial |->
        LabelChars(requests[i].initial[n].label[1])]

\* C22: the anonymizer is injective and strictly order-preserving over the
\* positions 0..N-1 of the roster: two positions never get the same label,
\* the label of an earlier position sorts before the label of a later one,
\* and the labels an agent is shown come in that order
C22_LabelsInjectiveAndOrdered ==
    /\ \A i, j \in DOMAIN models :
          /\ i # j => _anonymize_model_name(i - 1) # _anonymize_model_name(j - 1)
          /\ i < j => StrLess(LabelChars(_anonymize_model_name(i - 1)),
                              LabelChars(_anonymize_model_name(j - 1)))
    /\ pc = "round_wait" =>
          \A i \in DOMAIN requests :
             \A n, m \in DOMAIN requests[i].initial :
                n < m => StrLess(ShownLabels(i)[n], ShownLabels(i)[m])

\* a round in flight on the largest roster: every agent is shown the labels
\* of all the others
C22_Witness ==
    /\ pc = "round_wait"
    /\ Len(models) = MaxAgents
    /\ \A i \in DOMAIN requests : Len(requests[i].initial) = MaxAgents - 1

\* "Model A", "Model B", "Model C": the word in Latin letters and the
\* letter counted from "A" (code point 65)
LatinLabel(index) == [word |-> <<77, 111, 100, 101, 108>>, letter |-> 65 + index]

\* C23 (as claimed): _anonymize_model_name maps index 0 to "Model A", 1 to
\* "Model B" and 2 to "Model C", for every position of the roster up to
\* the third.
C23_LatinLabels ==
    \A p \in DOMAIN models :
       p <= 3 => _anonymize_model_name(p - 1) = LatinLabel(p - 1)

\* the contents the formatter is tried on
SampleContents == {<<"first">>, <<"second">>}

\* the entry at position j of responses as it is to be shown: under the
\* label of position j, with its own content
Shown(responses, j) ==
    Piece(<<_anonymize_model_name(j - 1)>>, <<>>, responses[j], j)

\* responses without the entry at position i, the others in order
AllBut(responses, i) ==
    [n \in 1..(Len(responses) - 1) |->
        Shown(responses, IF n < i THEN n ELSE n + 1)]

\* C24: _format_responses_for_discussion with exclude_index = i leaves out
\* exactly entry i and keeps the others in their order, each under the
\* label of its position in the list given (the labels do not move up);
\* without exclude_index every entry appears.  So for the prompts of a
\* round as well: agent i is shown every initial answer but its own.
C24_ExcludeLeavesLabelsInPlace ==
    /\ \A responses \in SeqsUpTo(SampleContents, Len(models)) :
          /\ \A i \in DOMAIN responses :
                _format_responses_for_discussion(responses, <<i - 1>>)
                    = AllBut(responses, i)
          /\ _format_responses_for_discussion(responses, <<>>)
                = [n \in DOMAIN responses |-> Shown(responses, n)]
    /\ pc = "round_wait" =>
          \A i \in DOMAIN requests :
             requests[i].initial = AllBut(Contents(initial_responses), i)

\* a round in flight in which the answer left out is neither the first
\* nor the last: the label after the gap is that of the later position
C24_Witness ==
    /\ pc = "round_wait"
    /\ Len(models) = 3
    /\ Len(requests[2].initial) = 2
    /\ requests[2].initial[2].label = <<_anonymize_model_name(2)>>
    /\ requests[2].initial[2].src = 3

C26_ThreeConfiguredModels ==
    /\ Len(models) = 3
    /\ \A i \in DOMAIN models : {"id", "name", "role"} \subseteq DOMAIN models[i]
    /\ chairman # <<>>
    /\ chairman[1].role = "chairman"
    /\ \E i \in DOMAIN models : models[i] = chairman[1]

\* the part of C26 that does hold of the configured roster
C26_ChairmanIsRosterEntry ==
    /\ \A i \in DOMAIN models : {"id", "name", "role"} \subseteq DOMAIN models[i]
    /\ chairman # <<>>
    /\ chairman[1].role = "chairman"
    /\ \E i \in DOMAIN models : models[i] = chairman[1]

\* every gateway call of the round in flight has failed
AllCallsFailed ==
    /\ pc = "round_wait"
    /\ entry = "run_full_council"
    /\ Gathered
    /\ DOMAIN results # {}
    /\ \A p \in DOMAIN results : IsException(results[p])

\* the turn of roster position p in a round number j whose call failed
DegradedTurn(p, j, result) ==
    ModelMessageResponse(models[p], ErrorMarker(result), 0, <<>>,
                         "discussion", j)

\* C27: a round in which every agent's call failed is still a completed
\* round: it is appended with one degraded turn per agent, the gateway is
\* not called again for it, and the run goes on to the next round when the
\* round number is below MAX_DISCUSSION_ROUNDS (a mean confidence of 0 does
\* not end the discussion) and to the consensus stage when it is not
C27_FailedRoundIsCompleted ==
    [][ (AllCallsFailed /\ pc' # pc) =>
          /\ discussion_rounds' =
                Append(discussion_rounds,
                       DiscussionRound(round_num,
                          [p \in DOMAIN models |->
                              DegradedTurn(p, round_num, results[p])]))
          /\ calls' = calls
          /\ raised' = "none"
          /\ IF round_num < MAX_DISCUSSION_ROUNDS
             THEN pc' = "round_start" /\ round_num' = round_num + 1
             ELSE pc' = "consensus_start" /\ round_num' = round_num ]_vars

\* a run that came to its end with every call of every round failed
C27_Witness ==
    /\ pc = "done"
    /\ Len(models) = 2
    /\ Len(discussion_rounds) = MAX_DISCUSSION_ROUNDS
    /\ \A k \in DOMAIN discussion_rounds :
          \A p \in DOMAIN discussion_rounds[k].responses :
             /\ discussion_rounds[k].responses[p].confidence = 0
             /\ discussion_rounds[k].responses[p].content = ErrorMarker(Timeout)

\* what one section of the prompt shows: for each piece, the position it
\* was taken from and the content
Showing(pieces) ==
    [n \in DOMAIN pieces |-> <<pieces[n].src, pieces[n].content>>]

\* the prompt of request req shows the initial answers of all agents but
\* agent i, and the turns of the rounds given, each once and in order
ShowsAll(req, i, rounds) ==
    /\ Showing(req.initial) =
          Showing(AllBut(Contents(initial_responses), i))
    /\ Len(req.rounds) = Len(rounds)
    /\ \A j \in DOMAIN rounds :
          /\ req.rounds[j].round_number = rounds[j].round_number
          /\ Showing(req.rounds[j].pieces) =
                [p \in DOMAIN rounds[j].responses |->
                    <<p, rounds[j].responses[p].content>>]

\* the prompts the next round builds, from the state after the step
NextPrompts ==
    DiscussionRequests(models', initial_responses', discussion_rounds',
                       round_num')

\* C28: the context only grows.  The prompt of round k shows the initial
\* outputs (to each agent, those of the others) and the turns of the rounds
\* 1..k-1, each once and in order; and when a round has been processed,
\* everything its prompts showed is shown again, in the same places, by the
\* prompts of the round after it.
C28_ContextOnlyGrows ==
    [][ /\ (pc = "round_dispatch" /\ pc' = "round_wait") =>
              /\ Len(discussion_rounds) = round_num - 1
              /\ \A i \in DOMAIN models :
                    ShowsAll(requests'[i], i, discussion_rounds)
        /\ (pc = "round_wait" /\ pc' = "round_start") =>
              \A i \in DOMAIN models :
                 /\ NextPrompts[i].initial = requests[i].initial
                 /\ Len(NextPrompts[i].rounds) = Len(requests[i].rounds) + 1
                 /\ SubSeq(NextPrompts[i].rounds, 1, Len(requests[i].rounds))
                       = requests[i].rounds
        /\ (pc = "round_start" /\ pc' # pc) =>
              /\ pc' = "round_dispatch"
              /\ UNCHANGED <<models, initial_responses, discussion_rounds,
                             round_num>> ]_vars

\* the last round in flight: two agents, each shown the other's initial
\* answer and both turns of each of the rounds before
C28_Witness ==
    /\ pc = "round_wait"
    /\ round_num = MAX_DISCUSSION_ROUNDS
    /\ Len(models) = 2
    /\ \A i \in DOMAIN requests :
          /\ Len(requests[i].initial) = 1
          /\ Len(requests[i].rounds) = MAX_DISCUSSION_ROUNDS - 1
          /\ \A j \in DOMAIN requests[i].rounds :
                Len(requests[i].rounds[j].pieces) = 2

\* the roster and the turns of the run had the agents been given the
\* display names f
Renamed(ms, f) == [p \in DOMAIN ms |-> [ms[p] EXCEPT !.name = f[p]]]

RenamedTurns(responses, f) ==
    [p \in DOMAIN responses |-> [responses[p] EXCEPT !.model_name = f[p]]]

RenamedRounds(rounds, f) ==
    [k \in DOMAIN rounds |->
        [rounds[k] EXCEPT !.responses = RenamedTurns(rounds[k].responses, f)]]

\* the prompts of the round in flight under the display names f
PromptsUnder(f) ==
    DiscussionRequests(Renamed(models, f), RenamedTurns(initial_responses, f),
                       RenamedRounds(discussion_rounds, f), round_num)

\* every piece of every section of the prompts is under the label of the
\* roster position of the agent whose answer it shows
LabelledByPosition ==
    \A i \in DOMAIN requests :
       /\ \A n \in DOMAIN requests[i].initial :
             requests[i].initial[n].label =
                <<_anonymize_model_name(requests[i].initial[n].src - 1)>>
       /\ \A j \in DOMAIN requests[i].rounds :
             \A n \in DOMAIN requests[i].rounds[j].pieces :
                requests[i].rounds[j].pieces[n].label =
                   <<_anonymize_model_name(requests[i].rounds[j].pieces[n].src - 1)>>

\* C29 (as claimed): the peer context attributes by position label only.
\* Whatever display names the other agents have, agent i is shown the same
\* context, and every agent has the same label in the initial section as
\* in every section of an earlier round.
C29_ContextIgnoresDisplayNames ==
    pc = "round_wait" =>
        /\ LabelledByPosition
        /\ \A i \in DOMAIN requests :
              \A f \in [DOMAIN models -> DisplayNames] :
                 f[i] = models[i].name =>
                    /\ PromptsUnder(f)[i].initial = requests[i].initial
                    /\ PromptsUnder(f)[i].rounds = requests[i].rounds

\* the part of C29 that holds: of rosters whose display names differ from
\* each other, and of the first round of any roster
C29_DistinctNamesLabelledByPosition ==
    /\ (/\ pc = "round_wait"
        /\ \/ discussion_rounds = <<>>
           \/ \A p, q \in DOMAIN models :
                 p # q => models[p].name # models[q].name)
           => LabelledByPosition
    /\ pc = "round_wait" =>
           \A i \in DOMAIN requests :
              \A f \in [DOMAIN models -> DisplayNames] :
                 (/\ f[i] = models[i].name
                  /\ \A p, q \in DOMAIN models :
                        p # q => /\ models[p].name # models[q].name
                                 /\ f[p] # f[q])
                    => /\ PromptsUnder(f)[i].initial = requests[i].initial
                       /\ PromptsUnder(f)[i].rounds = requests[i].rounds

\* C30: in every result returned, the rounds are numbered consecutively
\* from 1, each round has one turn per roster agent, in roster order, and
\* each turn of round j has stage discussion and round_number j
C30_RoundsWellFormed ==
    (pc = "done" /\ entry = "run_full_council") =>
        /\ returned # <<>>
        /\ Len(returned[1].discussion_rounds) \in 1..MAX_DISCUSSION_ROUNDS
        /\ \A j \in DOMAIN returned[1].discussion_rounds :
              LET round == returned[1].discussion_rounds[j]
              IN  /\ round.round_number = j
                  /\ Len(round.responses) = Len(models)
                  /\ \A p \in DOMAIN round.responses :
                        /\ round.responses[p].model_id = models[p].id
                        /\ round.responses[p].stage = "discussion"
                        /\ round.responses[p].round_number = j

\* a result with the most rounds there can be, over two agents
C30_Witness ==
    /\ pc = "done"
    /\ entry = "run_full_council"
    /\ returned # <<>>
    /\ Len(returned[1].discussion_rounds) = MAX_DISCUSSION_ROUNDS
    /\ Len(models) = 2
    /\ returned[1].discussion_rounds[MAX_DISCUSSION_ROUNDS].round_number
          = MAX_DISCUSSION_ROUNDS

\* the initial stage of the run is over
InitialStageOver ==
    pc \in {"round_start", "round_dispatch", "round_wait", "consensus_start",
            "consensus_dispatch", "consensus_wait", "done", "failed"}

\* C31: later stages leave earlier output unchanged.  Once the initial
\* stage is over no step changes the initial turns, no step changes a round
\* that has been appended (a step can only append one), and the result
\* returned holds the initial turns and the rounds as they are then: the
\* initial turns as the initial stage produced them, round j as it was when
\* it completed
C31_EarlierOutputUnchanged ==
    [][ /\ InitialStageOver => initial_responses' = initial_responses
        /\ Len(discussion_rounds') >= Len(discussion_rounds)
        /\ SubSeq(discussion_rounds', 1, Len(discussion_rounds))
              = discussion_rounds
        /\ (returned' # returned /\ entry = "run_full_council") =>
              /\ returned'[1].initial_responses = initial_responses
              /\ returned'[1].discussion_rounds = discussion_rounds ]_vars

\* a result after two rounds or more in which an agent's initial turn
\* differs in content from its turn of the first round
C31_Witness ==
    /\ pc = "done"
    /\ returned # <<>>
    /\ Len(returned[1].discussion_rounds) >= 2
    /\ returned[1].initial_responses = initial_responses
    /\ \E p \in DOMAIN initial_responses :
          initial_responses[p].content
             # returned[1].discussion_rounds[1].responses[p].content

\* run_full_council has returned a result or raised
Terminated ==
    \/ pc = "done" /\ returned # <<>> /\ raised = "none"
    \/ pc = "failed" /\ returned = <<>> /\ raised # "none"

\* the discussion calls the gateway has received
DiscussionCalls == { j \in DOMAIN calls : calls[j].stage = "discussion" }

\* C32: if every gateway call resolves and the sink takes every progress
\* event in the end, run_full_council terminates, by returning a result or
\* by raising, and it never runs more than MAX_DISCUSSION_ROUNDS rounds
C32_RunTerminates ==
    /\ <>Terminated
    /\ [](/\ round_num <= MAX_DISCUSSION_ROUNDS
          /\ Len(discussion_rounds) <= MAX_DISCUSSION_ROUNDS
          /\ Cardinality(DiscussionCalls)
                <= MAX_DISCUSSION_ROUNDS * Len(models)
          /\ pc \in {"done", "failed"} => Terminated)

\* the longest run: every round there can be, the result returned and
\* every event taken by the caller
C32_Witness ==
    /\ pc = "done"
    /\ returned # <<>>
    /\ Len(discussion_rounds) = MAX_DISCUSSION_ROUNDS
    /\ Cardinality(DiscussionCalls) = MAX_DISCUSSION_ROUNDS * Len(models)
    /\ drained = Len(events)

\* s is enclosed in a code fence: it opens with one and closes with one
Enclosed(s) == Len(s) >= 2 /\ Head(s) = Fence /\ s[Len(s)] = Fence

\* what is between the two fences of s
Between(s) == SubSeq(s, 2, Len(s) - 1)

\* the text inside the fence of s: what is between the fences, without the
\* rest of the opening line when the fence goes over several lines
InsideFence(s) ==
    IF FirstNewline(Between(s)) = 0 THEN Strip(Between(s))
    ELSE Strip(SubSeq(Between(s), FirstNewline(Between(s)) + 1,
                      Len(Between(s))))

\* the chair's text with at most one enclosing fence removed; blanks and
\* line breaks around the text are not counted as part of it
WithoutEnclosingFence(text) ==
    IF Enclosed(Strip(text)) THEN InsideFence(Strip(text)) ELSE Strip(text)

\* C33 (as claimed): whatever text the chair's call resolves to, the final
\* text is that text with at most one enclosing code fence removed and
\* nothing else lost: the text itself when no fence encloses it, the text
\* inside the fence when one does, a fence opened and closed on a single
\* line included.
C33_FinalTextVerbatim ==
    (pc = "consensus_wait" /\ chair_pending) =>
        \A text \in AllTexts : FinalAnswer(text) = WithoutEnclosingFence(text)

\* the fence of s opens on a line of its own and closes on a line of its own
FenceOnOwnLines(s) ==
    /\ Enclosed(s)
    /\ FirstNewline(s) # LastNewline(s)
    /\ s[Len(s) - 1] = Newline

\* the part of C33 that holds: texts that no fence encloses, and texts whose
\* fence opens and closes on lines of its own
C33_OwnLineFencesVerbatim ==
    (pc = "consensus_wait" /\ chair_pending) =>
        \A text \in AllTexts :
           (\/ ~Enclosed(Strip(text)) /\ Strip(text) # <<Fence>>
            \/ FenceOnOwnLines(Strip(text)))
              => FinalAnswer(text) = WithoutEnclosingFence(text)

\* the lines of messages in the string returned
MessageLines(out) ==
    SelectSeq(out, LAMBDA line : line.kind = "message")

\* C34: chat-history compaction respects its budget.  For every history
\* and every max_chars (a length, so not negative) the lengths of the
\* message lines included add up to at most max_chars; each body included
\* is at most 500 characters, followed by the truncation marker when it was
\* cut; the messages included are a prefix of the history, in its order;
\* the omission marker is there, as the last line, exactly when a message
\* was left out; and an empty history gives the empty string.
C34_CompactionWithinBudget ==
    (entry = "_format_chat_history_toon" /\ pc = "done") =>
        LET out == returned[1]
            shown == MessageLines(out)
        IN  /\ chat_history = <<>> <=> out = <<>>
            /\ chat_history # <<>> =>
                  /\ out[1] = HeaderLine
                  /\ SumSeq([k \in DOMAIN shown |-> LineChars(shown[k])])
                        <= max_chars
                  /\ Len(shown) <= Len(chat_history)
                  /\ \A k \in DOMAIN shown :
                        /\ out[k + 1] = shown[k]
                        /\ shown[k].src = k
                        /\ shown[k].prefix =
                              IF chat_history[k].role = "user" THEN "[U]"
                              ELSE "[A]"
                        /\ shown[k].chars <= TruncateAt
                        /\ shown[k].cut <=>
                              chat_history[k].content.chars > TruncateAt
                        /\ ~shown[k].cut =>
                              shown[k].chars = chat_history[k].content.chars
                  /\ Len(shown) < Len(chat_history) <=>
                        out[Len(out)] = OmissionLine
                  /\ Len(out) = 1 + Len(shown)
                        + (IF Len(shown) < Len(chat_history) THEN 1 ELSE 0)

\* a history of three messages of which the first two fill the budget to
\* the last character, the second cut at 500, and the third is left out
C34_Witness ==
    /\ entry = "_format_chat_history_toon"
    /\ pc = "done"
    /\ Len(chat_history) = 3
    /\ Len(MessageLines(returned[1])) = 2
    /\ MessageLines(returned[1])[2].cut
    /\ LineChars(MessageLines(returned[1])[1])
          + LineChars(MessageLines(returned[1])[2]) = max_chars
    /\ returned[1][4] = OmissionLine

\* the place of a progress event in the order of the stages
EventRank(event) ==
    IF event.stage = "initial" THEN 0
    ELSE IF event.stage = "discussion" THEN event.round_number[1]
    ELSE MAX_DISCUSSION_ROUNDS + 1

\* C35: across one run the progress events are grouped by stage, in stage
\* order: the events of the initial stage come before those of round 1,
\* those of round k before those of round k + 1, those of the discussion
\* before the consensus started event; and inside a stage the started event
\* comes first, before every per-agent event of the stage
C35_EventsGroupedByStage ==
    \A n \in DOMAIN events :
       /\ \A m \in 1..(n - 1) :
             /\ EventRank(events[m]) <= EventRank(events[n])
             /\ events[n].status = "started" =>
                   EventRank(events[m]) < EventRank(events[n])
       /\ events[n].status # "started" =>
             \E m \in 1..(n - 1) :
                /\ events[m].status = "started"
                /\ EventRank(events[m]) = EventRank(events[n])

\* a run with a callback over two agents that went through every round and
\* the consensus stage: events of five stages, the last one of the chairman
C35_Witness ==
    /\ pc = "done"
    /\ on_progress
    /\ Len(models) = 2
    /\ { EventRank(events[n]) : n \in DOMAIN events }
          = 0..(MAX_DISCUSSION_ROUNDS + 1)
    /\ Len(events) = 3 * (MAX_DISCUSSION_ROUNDS + 1) + 2

\* the progress events yielded to the client, in the order of the stream
ProgressSent == SelectSeq(sent, LAMBDA e : e.type = "progress")

\* the events of the run as the stream carries them
AsProgress(evs) == [n \in DOMAIN evs |-> StreamEvent("progress", evs[n])]

\* C36: in send_message_stream, for a run that succeeds, every progress
\* event the orchestrator emitted is sent to the client exactly once, in
\* the order of emission, and before the initial_responses event,
\* whichever way the task and the polling loop interleave: the progress
\* events sent are always the first of those emitted, in order, and when
\* initial_responses is sent everything before it is the whole list
C36_ProgressSentOnceInOrder ==
    /\ Len(ProgressSent) = drained
    /\ ProgressSent = AsProgress(SubSeq(events, 1, drained))
    /\ \A k \in DOMAIN sent :
          sent[k].type = "initial_responses" =>
             /\ pc = "done"
             /\ SubSeq(sent, 1, k - 1) = AsProgress(events)

\* the task has returned while events it emitted are still in the queue,
\* the last of them after the last poll
C36_Witness ==
    /\ pc = "done"
    /\ gen = "drain"
    /\ Len(events) - drained >= 2
    /\ events[Len(events)].stage = "consensus"
    /\ events[Len(events)].status = "completed"

\* the result events sent so far: everything but the progress events
ResultSent == SelectSeq(sent, LAMBDA e : e.type # "progress")

\* the result events of a run that returned result, in the order of the
\* claim
ResultEvents(result) ==
    <<StreamEvent("initial_responses", result.initial_responses)>>
    \o [j \in 1..Len(result.discussion_rounds) |->
           StreamEvent("discussion_round", result.discussion_rounds[j])]
    \o <<StreamEvent("consensus", result.consensus),
         StreamEvent("done", <<>>)>>

EventsOfType(types) == SelectSeq(sent, LAMBDA e : e.type \in types)

\* C38: when the run fails in send_message_stream the stream ends with an
\* error event, which is the only one, no initial_responses,
\* discussion_round, consensus or done event is sent and no assistant
\* message is saved; the user message saved before the run is the first
\* saved message from then on; an assistant message is saved only when the
\* run has succeeded, and its content is the final answer of the consensus.
C38_FailedRunEndsWithOneError ==
    /\ (pc = "failed" /\ gen = "closed") =>
          /\ sent # <<>>
          /\ sent[Len(sent)].type = "error"
          /\ Len(EventsOfType({"error"})) = 1
    /\ pc # "done" =>
          /\ EventsOfType({"initial_responses", "discussion_round",
                           "consensus", "done"}) = <<>>
          /\ \A m \in DOMAIN saved : saved[m].role # "assistant"
    /\ gen # "start" =>
          /\ saved # <<>>
          /\ saved[1] = ChatMessage("user", UserContent)
    /\ \A m \in DOMAIN saved :
          saved[m].role = "assistant" =>
             /\ pc = "done"
             /\ saved[m].content = consensus[1].final_answer
             /\ EventsOfType({"error"}) = <<>>

\* a stream closed by the error event after progress events were sent
C38_Witness ==
    /\ pc = "failed"
    /\ gen = "closed"
    /\ Len(sent) >= 2
    /\ sent[Len(sent)].type = "error"
    /\ saved = <<ChatMessage("user", UserContent)>>

\* the progress event of the consensus stage with the status
ConsensusEvent(status) ==
    StageProgressEvent("consensus", <<>>, <<chairman[1].name>>, status)

\* C39: the started event of the consensus stage is followed by the
\* completed event of the consensus stage exactly when the call of the
\* chairman succeeded: nothing but that completed event ever follows the
\* started event, and it is there when the run has returned; when the call
\* of the chairman raised, the started event is the last progress event of
\* the run and the stage has no event of any other status.
C39_CompletedIffChairSucceeded ==
    /\ \A n \in DOMAIN events :
          (events[n].stage = "consensus" /\ events[n].status = "started"
             /\ n < Len(events)) =>
             /\ n + 1 = Len(events)
             /\ events[n + 1] = ConsensusEvent("completed")
             /\ pc = "done"
    /\ (on_progress /\ pc = "done") =>
          /\ Len(events) >= 2
          /\ events[Len(events) - 1] = ConsensusEvent("started")
          /\ events[Len(events)] = ConsensusEvent("completed")
    /\ (on_progress /\ pc = "failed" /\ raised = "GatewayError") =>
          /\ events # <<>>
          /\ events[Len(events)] = ConsensusEvent("started")
          /\ \A n \in DOMAIN events :
                events[n].stage = "consensus" => events[n].status = "started"

\* the call of the chairman has raised after the stages before it emitted
\* their events
C39_Witness ==
    /\ on_progress
    /\ pc = "failed"
    /\ raised = "GatewayError"
    /\ Len(events) >= 3
    /\ events[Len(events)] = ConsensusEvent("started")


====
